---- MODULE Spec2Model ----
(***************************************************************************)
(* A model of the map poster generator (modules/poster_generator.py,       *)
(* modules/config.py, backend/services/generator_service.py).              *)
(*                                                                         *)
(* Spec        : one PosterGenerator: construction (load_theme) and         *)
(*               generate_poster, one fetch per step, then the render.      *)
(* SpecLayers  : the pure helpers get_layer_defaults and get_layer_color.   *)
(* SpecService : PosterGeneratorService.generate_poster.                    *)
(* SpecKandin  : kandincity building colours over several processes.        *)
(* SpecFont    : get_scaled_font_size and the scale factors it uses.        *)
(* SpecOverlay : apply_text_overlay (modules/text_positioning.py).          *)
(* SpecCrop    : get_crop_limits.                                           *)
(* SpecCache   : fetch_features of several processes over the disk cache.   *)
(* SpecSave    : save_poster over pyplot's figure registry.                 *)
(* SpecFilename: generate_output_filename and the clock.                    *)
(* SpecMain    : create_map_poster.main and the posters directory.          *)
(* SpecLights  : add_window_lights on one frame of buildings.               *)
(* SpecRegistry: ServiceRegistry (backend/core/service_registry.py).        *)
(* SpecGeocode : geocode_address (modules/geocoding.py).                    *)
(* SpecRefetch : fetch_graph and fetch_features called again and again.     *)
(***************************************************************************)
EXTENDS Integers, Sequences, FiniteSets, TLC

VARIABLES
    themeFile,   \* what THEMES_DIR/<theme_name>.json is on disk
    theme,       \* PosterGenerator.theme (NoTheme before construction)
    warnings,    \* number of warnings load_theme has printed
    pc,          \* position of the PosterGenerator caller
    distance,    \* generate_poster argument
    layers,      \* generate_poster's layer mapping (argument or defaults)
    G,           \* the street graph local of generate_poster
    feat,        \* the feature locals water, parks, buildings, ...
    fetchLog,    \* fetch_graph / fetch_features calls of the current call, in order
    result,      \* what generate_poster returned
    error,       \* the exception that left the constructor or generate_poster
    figures,     \* figures created by plt.subplots in the current call
    renderPath,  \* render paths entered by the current call, in order
    drawn,       \* <<layer, zorder * 10>> draw calls of the current call
    pure,        \* SpecLayers, SpecFont, SpecCrop: calls of the pure helpers
    svc,         \* SpecService: the PosterGeneratorService
    kandin,      \* SpecKandin: processes and the colours they rendered
    overlay,     \* SpecOverlay: the last apply_text_overlay call and its draws
    cache,       \* SpecCache: the cache directory and the fetching processes
    save,        \* SpecSave: pyplot's figures and the files save_poster wrote
    registry,    \* SpecRegistry: the ServiceRegistry and its running coroutines
    geo,         \* SpecGeocode: geocode_address calls and the coordinate cache
    run          \* SpecMain: runs of create_map_poster.main and the posters dir

vars == <<themeFile, theme, warnings, pc, distance, layers, G, feat, fetchLog,
          result, error, figures, renderPath, drawn, pure, svc, kandin,
          overlay, cache, save, registry, geo, run>>

posterVars == <<themeFile, theme, warnings, pc, distance, layers, G, feat,
                fetchLog, result, error, figures, renderPath, drawn>>

\* The variables of the specifications of the text overlay, the cache and
\* save_poster.
ext2 == <<registry, geo, run>>

ext == <<overlay, cache, save, ext2>>

(***************************************************************************)
(* modules/config.py                                                       *)
(***************************************************************************)
REQUIRED_THEME_KEYS ==
    {"bg", "text", "gradient_color", "water", "parks", "road_motorway",
     "road_primary", "road_secondary", "road_tertiary", "road_residential",
     "road_default"}

DEFAULT_THEME_COLORS ==
    [name |-> "Default", description |-> "Built-in default theme",
     bg |-> "#FFFFFF", text |-> "#000000", gradient_color |-> "#000000",
     water |-> "#A8DADC", parks |-> "#90BE6D", road_motorway |-> "#F77F00",
     road_primary |-> "#F94144", road_secondary |-> "#F8961E",
     road_tertiary |-> "#F9C74F", road_residential |-> "#90BE6D",
     road_default |-> "#CCCCCC", buildings |-> "#D0D0D0",
     buildings_fill |-> "#E8E8E8", paths |-> "#B0B0B0", farmland |-> "#F5F5DC",
     forest |-> "#C8E6C9", meadow |-> "#E8F5E9", waterways |-> "#7CB9E8",
     railways |-> "#4A4A4A", railways_dash |-> "#FFFFFF", hedges |-> "#6B8E23",
     leisure |-> "#C5E1A5", amenities |-> "#E0E0E0", amenities_edge |-> "#808080"]

\* LAYER_ZOOM_THRESHOLDS has exactly these two keys.
LAYER_ZOOM_THRESHOLDS == [all_on |-> 2000, buildings_only |-> 8000]

\* The keys of DETAIL_LAYER_TAGS, in the order generate_poster fetches them.
DetailOrder ==
    <<"landscape", "buildings", "paths", "waterways", "railways", "hedges",
      "leisure", "amenities">>

DetailLayers == {DetailOrder[i] : i \in 1..Len(DetailOrder)}

FeatureLayers == {"water", "parks"} \cup DetailLayers

\* LAYER_ZORDER, times ten.
LAYER_ZORDER ==
    [landscape |-> 0, water |-> 10, waterways |-> 15, parks |-> 20,
     leisure |-> 25, amenities |-> 28, buildings |-> 30, hedges |-> 35,
     paths |-> 40, railways |-> 45, roads |-> 50, gradients |-> 100,
     text |-> 110]

\* ROAD_HIERARCHY: highway tag -> theme colour key.
ROAD_HIERARCHY ==
    [motorway |-> "road_motorway", motorway_link |-> "road_motorway",
     trunk |-> "road_primary", primary |-> "road_primary",
     secondary |-> "road_secondary", tertiary |-> "road_tertiary",
     residential |-> "road_residential", living_street |-> "road_residential",
     unclassified |-> "road_default"]

(***************************************************************************)
(* Themes (dicts) are functions from keys to strings; None is "None".      *)
(***************************************************************************)
NoTheme == [k \in {} |-> ""]

\* dict.get(key, default)
ThemeGet(th, key, default) == IF key \in DOMAIN th THEN th[key] ELSE default

With(th, key, value) ==
    [k \in DOMAIN th \cup {key} |-> IF k = key THEN value ELSE th[k]]

Without(th, key) == [k \in DOMAIN th \ {key} |-> th[k]]

None == "None"

\* `if v:` for an optional string.
Given(v) == v \notin {None, ""}

NoError == [type |-> "none", arg |-> ""]

Raised(type, arg) == [type |-> type, arg |-> arg]

\* th[key]: the KeyError a missing key raises.
Need(th, key) == IF key \in DOMAIN th THEN NoError ELSE Raised("KeyError", key)

\* A theme file that holds exactly the required keys.
StdFileTheme ==
    [bg |-> "#F5EDE4", text |-> "#8C4A18", gradient_color |-> "#F5EDE4",
     water |-> "#A8C4C4", parks |-> "#E8E0D0", road_motorway |-> "#A0522D",
     road_primary |-> "#B8653A", road_secondary |-> "#C9846A",
     road_tertiary |-> "#D9A08A", road_residential |-> "#E5C4B0",
     road_default |-> "#D9A08A"]

\* The contents a theme file can have: a missing file, a file that cannot be
\* opened, bytes that are not text in the locale's encoding, text that is not
\* JSON, JSON that is not an object, and JSON objects.
ThemeFiles ==
    {[kind |-> k, content |-> NoTheme] :
        k \in {"missing", "unreadable", "bad_encoding", "bad_json", "not_object"}}
    \cup
    {[kind |-> "object", content |-> c] :
        c \in {StdFileTheme,
               Without(StdFileTheme, "bg"),
               With(StdFileTheme, "mode", "night_lights"),
               With(With(StdFileTheme, "mode", "holonight"),
                    "render_intersections", "true"),
               With(StdFileTheme, "mode", "kandincity"),
               With(Without(StdFileTheme, "water"), "mode", "blueprint")}}

\* PosterGenerator.load_theme on the file: the theme returned, the exception
\* that escapes, and whether a warning was printed.
load_theme(file) ==
    CASE file.kind = "missing" ->
            [theme |-> DEFAULT_THEME_COLORS, raised |-> NoError, warned |-> TRUE]
      [] file.kind \in {"unreadable", "bad_json"} ->
            \* OSError from open(), json.JSONDecodeError from json.load()
            [theme |-> DEFAULT_THEME_COLORS, raised |-> NoError, warned |-> TRUE]
      [] file.kind = "bad_encoding" ->
            \* UnicodeDecodeError from f.read(): neither JSONDecodeError nor OSError
            [theme |-> NoTheme, raised |-> Raised("UnicodeDecodeError", ""),
             warned |-> FALSE]
      [] file.kind = "not_object" ->
            \* theme.get("name", ...) on a list, number or string
            [theme |-> NoTheme, raised |-> Raised("AttributeError", "get"),
             warned |-> FALSE]
      [] OTHER ->
            [theme |-> file.content, raised |-> NoError, warned |-> FALSE]

(***************************************************************************)
(* Layer defaults and layer colours                                        *)
(***************************************************************************)
NoLayers == [k \in {} |-> FALSE]

\* layers.get(name): None (absent) and False are both falsy.
LayersGet(l, name) == name \in DOMAIN l /\ l[name]

\* The dict get_layer_defaults builds, restricted to the eight keys that
\* generate_poster reads: those of `on` True, the others False.
LayerDict(on) == [l \in DetailLayers |-> l \in on]

\* get_layer_defaults with exclusive upper bounds (`<` for `<=`).
get_layer_defaults_Exclusive(distance_m) ==
    IF distance_m < LAYER_ZOOM_THRESHOLDS["all_on"]
    THEN [raised |-> NoError, value |-> LayerDict(DetailLayers)]
    ELSE IF distance_m < LAYER_ZOOM_THRESHOLDS["buildings_only"]
    THEN [raised |-> NoError,
          value |-> LayerDict({"buildings", "waterways", "railways",
                               "leisure", "amenities"})]
    ELSE [raised |-> Need(LAYER_ZOOM_THRESHOLDS, "water_rail_only"),
          value |-> NoLayers]

\* PosterGenerator.get_layer_defaults: the dict returned, or the exception
\* raised by the lookup of a threshold LAYER_ZOOM_THRESHOLDS does not hold.
get_layer_defaults(distance_m) ==
    IF distance_m <= LAYER_ZOOM_THRESHOLDS["all_on"]
    THEN [raised |-> NoError, value |-> LayerDict(DetailLayers)]
    ELSE IF distance_m <= LAYER_ZOOM_THRESHOLDS["buildings_only"]
    THEN [raised |-> NoError,
          value |-> LayerDict({"buildings", "waterways", "railways",
                               "leisure", "amenities"})]
    ELSE IF Need(LAYER_ZOOM_THRESHOLDS, "water_rail_only") # NoError
    THEN [raised |-> Need(LAYER_ZOOM_THRESHOLDS, "water_rail_only"),
          value |-> NoLayers]
    ELSE [raised |-> NoError, value |-> LayerDict({"waterways", "railways"})]

\* get_layer_color that never consults the fallback key.
get_layer_color_NoFallback(th, layer_key, fallback_key) ==
    IF layer_key \in DOMAIN th THEN th[layer_key]
    ELSE ThemeGet(th, "bg", "#FFFFFF")

\* PosterGenerator.get_layer_color; fallback_key "" stands for None.
get_layer_color(th, layer_key, fallback_key) ==
    IF layer_key \in DOMAIN th THEN th[layer_key]
    ELSE IF fallback_key # "" /\ fallback_key \in DOMAIN th THEN th[fallback_key]
    ELSE ThemeGet(th, "bg", "#FFFFFF")

(***************************************************************************)
(* generate_poster: the fetch steps                                        *)
(***************************************************************************)
\* Radii in metres: inside the second band, on its upper bound, and beyond it.
\* (The all-on band, whose ten fetches multiply the outcomes, is exercised on
\* get_layer_defaults itself in SpecLayers.)
Distances == {5000, 8000, 12000}

\* The layers argument: None, an empty dict, the docstring's example, and a
\* dict that turns on the layers the defaults of these radii leave off.
LayerArgs ==
    {[none |-> TRUE, map |-> NoLayers],
     [none |-> FALSE, map |-> NoLayers],
     [none |-> FALSE,
      map |-> [l \in {"buildings", "paths", "landscape"} |-> l # "landscape"]],
     [none |-> FALSE,
      map |-> [l \in {"landscape", "paths", "hedges"} |-> TRUE]]}

\* What a fetch_features call can return: None (the request raised), an empty
\* collection, or a collection with geometries of the kind the layer draws
\* (from the cache or from the request).
FeatureOutcomes == {"None", "empty", "data"}

NoFeatures == [l \in FeatureLayers |-> "None"]

\* NextFetch without the `if layers.get(...)` tests.
NextFetch_IgnoresToggles(l, i) ==
    IF i < Len(DetailOrder) THEN DetailOrder[i + 1] ELSE "render"

\* The first enabled detail layer after position i of DetailOrder, or "render".
NextFetch(l, i) ==
    LET later == {j \in (i + 1)..Len(DetailOrder) : LayersGet(l, DetailOrder[j])}
    IN  IF later = {} THEN "render"
        ELSE DetailOrder[CHOOSE j \in later : \A k \in later : j <= k]

Position(name) == CHOOSE i \in 1..Len(DetailOrder) : DetailOrder[i] = name

\* PosterGenerator.__init__: self.theme = self.load_theme(theme_name)
Construct ==
    /\ pc = "new"
    /\ LET r == load_theme(themeFile)
       IN  /\ theme' = r.theme
           /\ error' = r.raised
           /\ warnings' = warnings + (IF r.warned THEN 1 ELSE 0)
           /\ pc' = IF r.raised = NoError THEN "ready" ELSE "ctor_error"
    /\ UNCHANGED <<themeFile, distance, layers, G, feat, fetchLog, result,
                   figures, renderPath, drawn, pure, svc, kandin, ext>>

\* generate_poster up to the first fetch: the layer defaults when layers is None.
GeneratePoster(d, arg) ==
    /\ pc = "ready"
    /\ distance' = d
    /\ LET r == IF arg.none THEN get_layer_defaults(d)
                ELSE [raised |-> NoError, value |-> arg.map]
       IN  /\ layers' = r.value
           /\ error' = r.raised
           /\ pc' = IF r.raised = NoError THEN "fetch_graph" ELSE "done"
    /\ UNCHANGED <<themeFile, theme, warnings, G, feat, fetchLog, result,
                   figures, renderPath, drawn, pure, svc, kandin, ext>>

\* FetchGraph without the `if G is None: raise` check.
FetchGraph_NoNoneCheck ==
    /\ pc = "fetch_graph"
    /\ \E g \in {"None", "graph"} : G' = g
    /\ fetchLog' = Append(fetchLog, "graph")
    /\ pc' = "fetch_water"
    /\ UNCHANGED <<themeFile, theme, warnings, distance, layers, feat, result,
                   error, figures, renderPath, drawn, pure, svc, kandin, ext>>

\* G = self.fetch_graph(point, distance); if G is None: raise RuntimeError
FetchGraph ==
    /\ pc = "fetch_graph"
    /\ \E g \in {"None", "graph"} :
         /\ G' = g
         /\ fetchLog' = Append(fetchLog, "graph")
         /\ IF g = "None"
            THEN /\ pc' = "done"
                 /\ error' = Raised("RuntimeError", "street network")
            ELSE /\ pc' = "fetch_water"
                 /\ UNCHANGED error
    /\ UNCHANGED <<themeFile, theme, warnings, distance, layers, feat, result,
                   figures, renderPath, drawn, pure, svc, kandin, ext>>

\* water = self.fetch_features(point, distance, {...}, "water")
FetchWater ==
    /\ pc = "fetch_water"
    /\ \E out \in FeatureOutcomes : feat' = [feat EXCEPT !["water"] = out]
    /\ fetchLog' = Append(fetchLog, "water")
    /\ pc' = "fetch_parks"
    /\ UNCHANGED <<themeFile, theme, warnings, distance, layers, G, result,
                   error, figures, renderPath, drawn, pure, svc, kandin, ext>>

\* parks = self.fetch_features(point, distance, {...}, "parks")
FetchParks ==
    /\ pc = "fetch_parks"
    /\ \E out \in FeatureOutcomes : feat' = [feat EXCEPT !["parks"] = out]
    /\ fetchLog' = Append(fetchLog, "parks")
    /\ pc' = NextFetch(layers, 0)
    /\ UNCHANGED <<themeFile, theme, warnings, distance, layers, G, result,
                   error, figures, renderPath, drawn, pure, svc, kandin, ext>>

\* if layers.get(<layer>): <layer> = self.fetch_<layer>(point, distance)
FetchDetail ==
    /\ pc \in DetailLayers
    /\ \E out \in FeatureOutcomes : feat' = [feat EXCEPT ![pc] = out]
    /\ fetchLog' = Append(fetchLog, pc)
    /\ pc' = NextFetch(layers, Position(pc))
    /\ UNCHANGED <<themeFile, theme, warnings, distance, layers, G, result,
                   error, figures, renderPath, drawn, pure, svc, kandin, ext>>

(***************************************************************************)
(* generate_poster: the four render paths.  A path is a sequence of steps;  *)
(* a step that is `on` either raises `exc` or draws at the z-orders `zs`    *)
(* (times ten) in `colour`.                                                 *)
(***************************************************************************)
Step(layer, on, exc, zs, colour) ==
    [layer |-> layer, on |-> on, exc |-> exc, zs |-> zs, colour |-> colour]

\* `x is not None and not x.empty`, with geometries of the layer's kind
Has(f, l) == f[l] = "data"

\* ox.plot_graph draws the edges at its own zorder (1); no zorder is passed.
PlotGraphZ == {10}

\* get_edge_colors_by_type: self.theme.get(color_key, self.theme["road_default"])
\* evaluates self.theme["road_default"] for every edge whose tag is in
\* ROAD_HIERARCHY; a fetched street graph has such edges.
EdgeColorsExc(th) == Need(th, "road_default")

\* render_mode = self.theme.get("mode", "standard") and the three comparisons
RenderMode(th) ==
    LET render_mode == ThemeGet(th, "mode", "standard")
    IN  IF render_mode = "night_lights" THEN "night_lights"
        ELSE IF render_mode = "holonight" THEN "holonight"
        ELSE IF render_mode = "kandincity" THEN "kandincity"
        ELSE "standard"

\* The standard path, from plt.subplots(facecolor=self.theme["bg"]) on.
StandardSteps(th, f) ==
    <<Step("figure", TRUE, Need(th, "bg"), {}, ThemeGet(th, "bg", "")),
      Step("landscape", Has(f, "landscape"), NoError,
           {LAYER_ZORDER["landscape"]}, get_layer_color(th, "meadow", "parks")),
      Step("water", Has(f, "water"), Need(th, "water"),
           {LAYER_ZORDER["water"]}, ThemeGet(th, "water", "")),
      Step("waterways", Has(f, "waterways"), NoError,
           {LAYER_ZORDER["waterways"]}, get_layer_color(th, "waterways", "water")),
      Step("parks", Has(f, "parks"), Need(th, "parks"),
           {LAYER_ZORDER["parks"]}, ThemeGet(th, "parks", "")),
      Step("leisure", Has(f, "leisure"), NoError,
           {LAYER_ZORDER["leisure"]}, get_layer_color(th, "leisure", "parks")),
      Step("amenities", Has(f, "amenities"), NoError,
           {LAYER_ZORDER["amenities"]},
           get_layer_color(th, "amenities", "buildings_fill")),
      Step("buildings", Has(f, "buildings"), NoError,
           {LAYER_ZORDER["buildings"]}, get_layer_color(th, "buildings_fill", "bg")),
      Step("hedges", Has(f, "hedges"), NoError,
           {LAYER_ZORDER["hedges"]}, get_layer_color(th, "hedges", "parks")),
      Step("paths", Has(f, "paths"), NoError,
           {LAYER_ZORDER["paths"]}, get_layer_color(th, "paths", "road_residential")),
      Step("railways", Has(f, "railways"), NoError,
           {LAYER_ZORDER["railways"]}, get_layer_color(th, "railways", "text")),
      Step("roads", TRUE, EdgeColorsExc(th), PlotGraphZ,
           ThemeGet(th, "road_default", "")),
      Step("gradients", TRUE, Need(th, "gradient_color"), {100},
           ThemeGet(th, "gradient_color", "")),
      Step("text", TRUE, Need(th, "text"), {110}, ThemeGet(th, "text", ""))>>

\* NightWindowLights without the try/except around add_window_lights.
NightWindowLights_NoTry(buildings) ==
    IF buildings = "None" THEN [draws |-> FALSE, exc |-> NoError]
    ELSE IF buildings = "empty"
    THEN [draws |-> FALSE, exc |-> Raised("UnboundLocalError", "buildings_polys")]
    ELSE [draws |-> TRUE, exc |-> NoError]

\* _render_night_lights line 1468: `if buildings is not None:` calls
\* add_window_lights(ax, buildings_polys, ...) inside try/except Exception.
\* buildings_polys is bound only when buildings is not empty, so for an empty
\* collection the call raises UnboundLocalError, which the except swallows.
NightWindowLights(buildings) ==
    IF buildings = "None" THEN [draws |-> FALSE, exc |-> NoError]
    ELSE IF buildings = "empty" THEN [draws |-> FALSE, exc |-> NoError]
    ELSE [draws |-> TRUE, exc |-> NoError]

\* create_glow_effect at zorder 3, 4 and 5: zorder .. zorder + 3 each
GlowZ == {30, 40, 50, 60, 70, 80}

NightSteps(th, f) ==
    <<Step("figure", TRUE, NoError, {}, ThemeGet(th, "bg", "#040408")),
      Step("water", Has(f, "water"), NoError, {10, 15},
           ThemeGet(th, "water", "#020208")),
      Step("parks", Has(f, "parks"), NoError, {10},
           ThemeGet(th, "parks", "#030306")),
      Step("buildings", Has(f, "buildings"), NoError, {20},
           ThemeGet(th, "buildings_fill", "#08080f")),
      Step("roads", TRUE, NoError, GlowZ, ThemeGet(th, "road_motorway", "#FFB030")),
      Step("window_lights",
           NightWindowLights(f["buildings"]).draws
               \/ NightWindowLights(f["buildings"]).exc # NoError,
           NightWindowLights(f["buildings"]).exc, {80, 90, 100}, ""),
      Step("horizon_glow", TRUE, NoError, {120},
           ThemeGet(th, "horizon_glow", "#0a1530")),
      Step("text", TRUE, Need(th, "text"), {110}, ThemeGet(th, "text", ""))>>

\* A theme flag read with theme.get(key, default) and tested for truth.
Truthy(v) == v \notin {"false", "0", ""}

HolonightSteps(th, f) ==
    <<Step("figure", TRUE, NoError, {}, ThemeGet(th, "bg", "#000008")),
      Step("water", Has(f, "water"), NoError, {10},
           ThemeGet(th, "water", "#021020")),
      Step("parks", Has(f, "parks"), NoError, {10},
           ThemeGet(th, "parks", "#010408")),
      Step("buildings", Has(f, "buildings"), NoError, {20},
           ThemeGet(th, "buildings_fill", "#040812")),
      Step("roads", TRUE, NoError, GlowZ, ThemeGet(th, "road_motorway", "#00FFFF")),
      Step("intersections", Truthy(ThemeGet(th, "render_intersections", "false")),
           NoError, {90, 100, 110, 120}, ThemeGet(th, "intersection_glow", "#00FFFF")),
      Step("vignette", Truthy(ThemeGet(th, "vignette_intensity", "0.3")),
           NoError, {150}, ""),
      Step("text", TRUE, Need(th, "text"), {110}, ThemeGet(th, "text", ""))>>

KandincitySteps(th, f) ==
    <<Step("figure", TRUE, NoError, {}, ThemeGet(th, "bg", "#E8DCC8")),
      Step("water", Has(f, "water"), NoError, {10},
           ThemeGet(th, "water", ThemeGet(th, "bg", "#E8DCC8"))),
      Step("parks", Has(f, "parks"), NoError, {20},
           ThemeGet(th, "parks", "#8B9860")),
      Step("buildings", Has(f, "buildings"), NoError, {30}, "block_colors"),
      Step("roads", TRUE, NoError, PlotGraphZ,
           ThemeGet(th, "road_default", "#6A6A6A")),
      Step("text", TRUE, Need(th, "text"), {110}, ThemeGet(th, "text", ""))>>

PathSteps(path, th, f) ==
    CASE path = "night_lights" -> NightSteps(th, f)
      [] path = "holonight" -> HolonightSteps(th, f)
      [] path = "kandincity" -> KandincitySteps(th, f)
      [] OTHER -> StandardSteps(th, f)

\* Runs the steps in order up to the first one that raises: the figure is
\* returned only when none raises.
RunSteps(steps) ==
    LET bad == {i \in 1..Len(steps) : steps[i].on /\ steps[i].exc # NoError}
        stop == IF bad = {} THEN Len(steps) + 1
                ELSE CHOOSE i \in bad : \A j \in bad : i <= j
        done == {i \in 1..(stop - 1) : steps[i].on}
    IN  [result |-> IF bad = {} THEN "figure" ELSE "none",
         error |-> IF bad = {} THEN NoError ELSE steps[stop].exc,
         figures |-> IF 1 \in done THEN 1 ELSE 0,
         drawn |-> UNION {{<<steps[i].layer, z, steps[i].colour>> : z \in steps[i].zs}
                          : i \in done}]

\* PathsEntered with a special mode that does not return its figure and falls
\* through to the standard path.
PathsEntered_FallThrough(th) ==
    IF RenderMode(th) = "standard" THEN <<"standard">>
    ELSE <<RenderMode(th), "standard">>

\* The paths generate_poster enters for the theme: one `if ...: return` per
\* special mode, then the standard path.
PathsEntered(th) == <<RenderMode(th)>>

\* generate_poster from the mode dispatch (line 1041) to its return.
Render ==
    /\ pc = "render"
    /\ renderPath' = PathsEntered(theme)
    /\ \E r \in {RunSteps(PathSteps(renderPath'[Len(renderPath')], theme, feat))} :
           /\ result' = r.result
           /\ error' = r.error
           /\ figures' = r.figures
           /\ drawn' = r.drawn
    /\ pc' = "done"
    /\ UNCHANGED <<themeFile, theme, warnings, distance, layers, G, feat,
                   fetchLog, pure, svc, kandin, ext>>

\* The caller takes the figure or the exception; the generator is ready for
\* the next call with fresh locals.
Return ==
    /\ pc = "done"
    /\ pc' = "ready"
    /\ distance' = 0
    /\ layers' = NoLayers
    /\ G' = "unset"
    /\ feat' = NoFeatures
    /\ fetchLog' = <<>>
    /\ result' = "none"
    /\ error' = NoError
    /\ figures' = 0
    /\ renderPath' = <<>>
    /\ drawn' = {}
    /\ UNCHANGED <<themeFile, theme, warnings, pure, svc, kandin, ext>>

PureIdle == [fn |-> "none"]

SvcIdle == [state |-> "none"]

KandinIdle == [state |-> "none"]

OverlayIdle == [state |-> "none"]

CacheIdle == [state |-> "none"]

SaveIdle == [state |-> "none"]

\* The overlay, cache and save variables of a specification that does not
\* use them.
RegistryIdle == [state |-> "none"]

GeoIdle == [state |-> "none"]

RunIdle == [state |-> "none"]

\* The registry, geocoding and main variables of a specification that does
\* not use them.
Ext2Idle ==
    /\ registry = RegistryIdle
    /\ geo = GeoIdle
    /\ run = RunIdle

ExtIdle ==
    /\ overlay = OverlayIdle
    /\ cache = CacheIdle
    /\ save = SaveIdle
    /\ Ext2Idle

Init ==
    /\ themeFile \in ThemeFiles
    /\ theme = NoTheme
    /\ warnings = 0
    /\ pc = "new"
    /\ distance = 0
    /\ layers = NoLayers
    /\ G = "unset"
    /\ feat = NoFeatures
    /\ fetchLog = <<>>
    /\ result = "none"
    /\ error = NoError
    /\ figures = 0
    /\ renderPath = <<>>
    /\ drawn = {}
    /\ pure = PureIdle
    /\ svc = SvcIdle
    /\ kandin = KandinIdle
    /\ ExtIdle

Next ==
    \/ Construct
    \/ \E d \in Distances, arg \in LayerArgs : GeneratePoster(d, arg)
    \/ FetchGraph
    \/ FetchWater
    \/ FetchParks
    \/ FetchDetail
    \/ Render
    \/ Return

Spec == Init /\ [][Next]_vars

\* The PosterGenerator variables of a specification that does not use them.
PosterIdle ==
    /\ themeFile = [kind |-> "missing", content |-> NoTheme]
    /\ theme = NoTheme
    /\ warnings = 0
    /\ pc = "new"
    /\ distance = 0
    /\ layers = NoLayers
    /\ G = "unset"
    /\ feat = NoFeatures
    /\ fetchLog = <<>>
    /\ result = "none"
    /\ error = NoError
    /\ figures = 0
    /\ renderPath = <<>>
    /\ drawn = {}

(***************************************************************************)
(* SpecLayers: calls of get_layer_defaults and get_layer_color             *)
(***************************************************************************)
\* Calls of get_layer_defaults in one behaviour.
MaxCalls == 3

\* Radii on both sides of every threshold the function names.
LayerDistances == {500, 2000, 2001, 8000, 8001, 16000, 20000}

\* Themes with the optional key, with only its fallback, with neither, and
\* with no bg either.
ColourThemes ==
    {DEFAULT_THEME_COLORS, StdFileTheme, Without(StdFileTheme, "parks"), NoTheme}

\* <<layer_key, fallback_key>> pairs generate_poster passes; "" is None.
ColourQueries ==
    {<<"leisure", "parks">>, <<"waterways", "water">>,
     <<"buildings_fill", "bg">>, <<"farmland", "">>}

InitLayers ==
    /\ PosterIdle
    /\ ExtIdle
    /\ pure = [fn |-> "none", log |-> <<>>]
    /\ svc = SvcIdle
    /\ kandin = KandinIdle

\* One call of PosterGenerator.get_layer_defaults(distance_m); the log keeps
\* <<argument, outcome>> of every call.
CallLayerDefaults(d) ==
    /\ Len(pure.log) < MaxCalls
    /\ pure' = [fn |-> "get_layer_defaults",
                log |-> Append(pure.log, <<d, get_layer_defaults(d)>>)]
    /\ UNCHANGED <<posterVars, svc, kandin, ext>>

\* One call of get_layer_color(layer_key, fallback_key) on a generator whose
\* theme is th.
CallLayerColor(th, q) ==
    /\ pure' = [fn |-> "get_layer_color", th |-> th, key |-> q[1],
                fallback |-> q[2], ret |-> get_layer_color(th, q[1], q[2]),
                log |-> pure.log]
    /\ UNCHANGED <<posterVars, svc, kandin, ext>>

NextLayers ==
    \/ \E d \in LayerDistances : CallLayerDefaults(d)
    \/ \E th \in ColourThemes, q \in ColourQueries : CallLayerColor(th, q)

SpecLayers == InitLayers /\ [][NextLayers]_vars

(***************************************************************************)
(* SpecService: PosterGeneratorService (backend/services)                  *)
(***************************************************************************)
\* generate_poster calls of the service in one behaviour.
MaxSvcCalls == 3

\* The service's config dict: without and with a max_distance entry.
SvcConfigs ==
    {[default_theme |-> 0], [max_distance |-> 20000], [max_distance |-> 50000]}

SvcDistances == {8000, 20000, 20001, 50000, 50001}

\* self.config.get("max_distance", 50000)
ConfiguredMax(config) ==
    IF "max_distance" \in DOMAIN config THEN config["max_distance"] ELSE 50000

\* The colour overrides of a call: bg_color, water_color and parks_color are
\* None or a colour, road_colors is None (or empty, which `if` treats alike)
\* or a dict of road classes.
SvcOverrides ==
    [bg_color : {None, "#111111"}, water_color : {None, "#0000FF"},
     parks_color : {None, "#00FF00"},
     road_colors : {NoTheme, [motorway |-> "#FF0000"]}]

\* f"road_{key}"
RoadKey(key) ==
    CASE key = "motorway" -> "road_motorway"
      [] key = "primary" -> "road_primary"
      [] OTHER -> "road_default"

\* final_custom_theme: a copy of custom_theme (None here, so empty) with the
\* overrides that were given set on it.
FinalCustomTheme(ov) ==
    LET t0 == NoTheme
        t1 == IF Given(ov.bg_color) THEN With(t0, "bg", ov.bg_color) ELSE t0
        t2 == IF Given(ov.water_color) THEN With(t1, "water", ov.water_color)
              ELSE t1
        t3 == IF Given(ov.parks_color) THEN With(t2, "parks", ov.parks_color)
              ELSE t2
    IN  [k \in DOMAIN t3 \cup {RoadKey(r) : r \in DOMAIN ov.road_colors} |->
            IF \E r \in DOMAIN ov.road_colors : RoadKey(r) = k
            THEN ov.road_colors[CHOOSE r \in DOMAIN ov.road_colors :
                                    RoadKey(r) = k]
            ELSE t3[k]]

\* The arguments of the generator's constructor call: the theme name only
\* when there is no override, the overrides dict only when there is one.
CtorArgs(theme_name, final_custom_theme) ==
    [theme_name |-> IF final_custom_theme = NoTheme THEN theme_name ELSE None,
     custom_theme |-> final_custom_theme]

\* PosterGenerator(theme_name=..., custom_theme=...): __init__(self,
\* theme_name, font_id) has no custom_theme parameter, so the call raises
\* TypeError whatever the values, and no generator and no theme exist.
LegacyPosterGenerator(args) ==
    [raised |-> Raised("TypeError", "custom_theme"), theme |-> NoTheme]

NoCall ==
    [called |-> FALSE, initialized |-> FALSE, distance |-> 0, error |-> NoError,
     ctorCalls |-> 0, fetches |-> 0, overrides |-> None, args |-> None,
     theme |-> NoTheme]

InitService ==
    /\ PosterIdle
    /\ ExtIdle
    /\ pure = PureIdle
    /\ \E c \in SvcConfigs :
         svc = [config |-> c, initialized |-> FALSE, max_distance |-> 0,
                calls |-> 0, last |-> NoCall]
    /\ kandin = KandinIdle

\* PosterGeneratorService.initialize: the test generator may fail to build,
\* and then _initialized is left as it was.
SvcInitialize ==
    /\ \E ok \in BOOLEAN :
         svc' = [svc EXCEPT !.max_distance = ConfiguredMax(svc.config),
                            !.initialized = IF ok THEN TRUE ELSE @]
    /\ UNCHANGED <<posterVars, pure, kandin, ext>>

\* PosterGeneratorService.shutdown
SvcShutdown ==
    /\ svc' = [svc EXCEPT !.initialized = FALSE]
    /\ UNCHANGED <<posterVars, pure, kandin, ext>>

\* DistanceRejected comparing with the default maximum, not the configured one.
DistanceRejected_DefaultMax(d, max_distance) == d > 50000

\* if distance > self.max_distance: raise ValueError
DistanceRejected(d, max_distance) == d > max_distance

\* PosterGeneratorService.generate_poster.  Past the two checks it calls
\* LegacyPosterGenerator(theme_name=..., custom_theme=...); __init__ takes no
\* custom_theme parameter, so the call raises TypeError, which is logged and
\* re-raised: no generator exists and nothing is fetched.
SvcGeneratePoster(d, ov) ==
    /\ svc.calls < MaxSvcCalls
    /\ LET call == [called |-> TRUE, initialized |-> svc.initialized,
                    distance |-> d, error |-> NoError, ctorCalls |-> 0,
                    fetches |-> 0, overrides |-> ov, args |-> None,
                    theme |-> NoTheme]
           args == CtorArgs("terracotta", FinalCustomTheme(ov))
           generator == LegacyPosterGenerator(args)
       IN  svc' = [svc EXCEPT
                !.calls = @ + 1,
                !.last =
                    IF ~svc.initialized
                    THEN [call EXCEPT !.error = Raised("RuntimeError", "not initialized")]
                    ELSE IF DistanceRejected(d, svc.max_distance)
                    THEN [call EXCEPT !.error = Raised("ValueError", "distance")]
                    ELSE [call EXCEPT !.ctorCalls = 1,
                                      !.args = args,
                                      !.theme = generator.theme,
                                      !.error = generator.raised]]
    /\ UNCHANGED <<posterVars, pure, kandin, ext>>

NextService ==
    \/ SvcInitialize
    \/ SvcShutdown
    \/ \E d \in SvcDistances, ov \in SvcOverrides : SvcGeneratePoster(d, ov)

SpecService == InitService /\ [][NextService]_vars

(***************************************************************************)
(* SpecKandin: kandincity block colours in several interpreter processes   *)
(***************************************************************************)
\* Interpreter processes that render, one after the other or side by side.
NumProcs == 2

\* The per-process string-hash secret is drawn from 0..MaxSecret.
MaxSecret == 2

\* Distinct building geometries (their WKT strings).
NumWkt == 2

Procs == 1..NumProcs

Wkts == 1..NumWkt

\* Palettes: the built-in one (no block_colors key), one with weights of the
\* same length, and one whose weights have the wrong length.
KandinThemes ==
    {[block_colors |-> <<"#E8642C", "#3C4654", "#8B8860">>, weights |-> <<>>],
     [block_colors |-> <<"#D94F2B", "#2E3A4A", "#8A8A5C", "#F0E4C8">>,
      weights |-> <<4, 3, 2, 1>>],
     [block_colors |-> <<"#D94F2B", "#2E3A4A">>, weights |-> <<1>>]}

\* hash(str) of CPython: a keyed hash whose key is drawn when the interpreter
\* starts (PYTHONHASHSEED unset), so the value depends on the process.
StrHash(secret, wkt) == (wkt * 40503 + secret * 69069 + wkt * secret * 7) % 1048576

\* geom_hash = hash(row.geometry.wkt) % 1000000
GeomHash(secret, wkt) == StrHash(secret, wkt) % 1000000

\* The first draw of random.Random(seed): a fixed function of the seed.
RandomFirst(seed) == (seed * 1103 + 12345) % 65536

SumTo(w, n) == IF n = 0 THEN 0 ELSE LET S[i \in 1..n] == IF i = 1 THEN w[1] ELSE S[i - 1] + w[i] IN S[n]

\* get_block_color(theme, seed_value): rng.choices with the weights when they
\* match the palette's length, else rng.choice.
get_block_color(th, seed_value) ==
    LET colors == th.block_colors
        w == th.weights
        r == RandomFirst(seed_value)
    IN  IF w # <<>> /\ Len(w) = Len(colors)
        THEN colors[CHOOSE i \in 1..Len(colors) :
                        /\ r * SumTo(w, Len(w)) < SumTo(w, i) * 65536
                        /\ \A j \in 1..(i - 1) :
                               r * SumTo(w, Len(w)) >= SumTo(w, j) * 65536]
        ELSE colors[(r % Len(colors)) + 1]

InitKandin ==
    /\ PosterIdle
    /\ ExtIdle
    /\ pure = PureIdle
    /\ svc = SvcIdle
    /\ \E th \in KandinThemes :
         kandin = [theme |-> th,
                   secret |-> [p \in Procs |-> -1],
                   colour |-> [p \in Procs |-> [w \in Wkts |-> "none"]]]

\* An interpreter starts and draws its string-hash secret.
StartProcess(p) ==
    /\ kandin.secret[p] = -1
    /\ \E k \in 0..MaxSecret : kandin' = [kandin EXCEPT !.secret[p] = k]
    /\ UNCHANGED <<posterVars, pure, svc, ext>>

\* render_kandinsky_buildings, one row: the fill colour of the building
\* whose geometry has WKT w, in process p.
RenderBuilding(p, w) ==
    /\ kandin.secret[p] # -1
    /\ kandin' = [kandin EXCEPT !.colour[p][w] =
                      get_block_color(kandin.theme, GeomHash(kandin.secret[p], w))]
    /\ UNCHANGED <<posterVars, pure, svc, ext>>

NextKandin ==
    \/ \E p \in Procs : StartProcess(p)
    \/ \E p \in Procs, w \in Wkts : RenderBuilding(p, w)

SpecKandin == InitKandin /\ [][NextKandin]_vars

(***************************************************************************)
(* SpecFont: modules/text_positioning.py, font scaling.  Scale factors are  *)
(* exact fractions [n, d]; int() of a float product is IntOfFloat.          *)
(***************************************************************************)
\* PAPER_SCALE_FACTORS, in tenths.
PAPER_SCALE_FACTORS == [A2 |-> 14, A3 |-> 12, A4 |-> 10, A5 |-> 7]

\* ZOOM_SCALE_FACTORS: <<distance, factor in hundredths>>.
ZOOM_SCALE_FACTORS ==
    <<<<500, 40>>, <<1000, 50>>, <<2000, 60>>, <<4000, 75>>, <<8000, 90>>,
      <<15000, 100>>>>

RECURSIVE Gcd(_, _)
Gcd(a, b) == IF b = 0 THEN a ELSE Gcd(b, a % b)

\* The fraction n / d in lowest terms (n >= 0, d > 0).
Frac(n, d) == [n |-> n \div Gcd(n, d), d |-> d \div Gcd(n, d)]

FracLeq(x, y) == x.n * y.d <= y.n * x.d

\* PAPER_SCALE_FACTORS.get(paper_size, 1.0)
get_paper_scale_factor(paper_size) ==
    IF paper_size \in DOMAIN PAPER_SCALE_FACTORS
    THEN Frac(PAPER_SCALE_FACTORS[paper_size], 10)
    ELSE Frac(1, 1)

\* sorted(ZOOM_SCALE_FACTORS, key=lambda x: x[0])
thresholds == SortSeq(ZOOM_SCALE_FACTORS, LAMBDA a, b : a[1] < b[1])

\* The interpolation of get_zoom_scale_factor on the segment that starts at
\* thresholds[i]: factor + ratio * (next_factor - factor).
Interpolate(i, distance_m) ==
    LET dist == thresholds[i][1]
        factor == thresholds[i][2]
        next_dist == thresholds[i + 1][1]
        next_factor == thresholds[i + 1][2]
    IN  Frac(factor * (next_dist - dist) + (distance_m - dist) * (next_factor - factor),
             100 * (next_dist - dist))

\* get_zoom_scale_factor with no clamp below the first control point.
get_zoom_scale_factor_NoLowClamp(distance_m) ==
    IF distance_m >= thresholds[Len(thresholds)][1]
    THEN Frac(thresholds[Len(thresholds)][2], 100)
    ELSE IF distance_m < thresholds[1][1]
    THEN Interpolate(1, distance_m)
    ELSE LET hits == {i \in 1..(Len(thresholds) - 1) :
                          thresholds[i][1] <= distance_m
                              /\ distance_m < thresholds[i + 1][1]}
         IN  Interpolate(CHOOSE i \in hits : \A j \in hits : i <= j, distance_m)

get_zoom_scale_factor(distance_m) ==
    IF distance_m <= thresholds[1][1]
    THEN Frac(thresholds[1][2], 100)
    ELSE IF distance_m >= thresholds[Len(thresholds)][1]
    THEN Frac(thresholds[Len(thresholds)][2], 100)
    ELSE LET hits == {i \in 1..(Len(thresholds) - 1) :
                          thresholds[i][1] <= distance_m
                              /\ distance_m < thresholds[i + 1][1]}
         IN  IF hits = {} THEN Frac(1, 1)
             ELSE Interpolate(CHOOSE i \in hits : \A j \in hits : i <= j,
                              distance_m)

\* paper_factor * zoom_factor
calculate_font_scale(paper_size, distance_m) ==
    LET paper_factor == get_paper_scale_factor(paper_size)
        zoom_factor == get_zoom_scale_factor(distance_m)
    IN  Frac(paper_factor.n * zoom_factor.n, paper_factor.d * zoom_factor.d)

\* int(x) of the float that the product base_size * scale yields.  The
\* scale factors (1.4, 0.4, ...) are not binary fractions, so the float can
\* fall just short of an exact integer product and int() then truncates to
\* the integer below; a product that is not an integer is never that close
\* to one.  A scale of exactly 1.0 multiplies exactly.
IntOfFloat(base_size, scale) ==
    LET n == base_size * scale.n
    IN  IF n % scale.d = 0 /\ n > 0 /\ scale # Frac(1, 1)
        THEN {n \div scale.d - 1, n \div scale.d}
        ELSE {n \div scale.d}

Max(a, b) == IF a >= b THEN a ELSE b

\* get_scaled_font_size without the min_size floor.
get_scaled_font_size_NoFloor(base_size, paper_size, distance_m, min_size) ==
    IntOfFloat(base_size, calculate_font_scale(paper_size, distance_m))

\* get_scaled_font_size: max(int(scaled), min_size); the set holds the
\* values the float arithmetic can yield.
get_scaled_font_size(base_size, paper_size, distance_m, min_size) ==
    {Max(i, min_size) :
        i \in IntOfFloat(base_size, calculate_font_scale(paper_size, distance_m))}

\* <<base_size, min_size>> arguments: the coordinate size of
\* apply_text_overlay with its floor, and a size whose products are whole
\* numbers with a floor above the smallest of them.
FontSizes == {<<14, 8>>, <<25, 16>>}

PaperSizes == {"A2", "A3", "A4", "A5", "Letter"}

FontDistances == {400, 500, 3000, 15000, 20000}

NoFontCall ==
    [called |-> FALSE, base |-> 0, paper |-> "", distance |-> 0, min |-> 0,
     zoom |-> Frac(0, 1), scale |-> Frac(0, 1), ret |-> 0]

InitFont ==
    /\ PosterIdle
    /\ ExtIdle
    /\ pure = [fn |-> "none", first |-> NoFontCall, second |-> NoFontCall]
    /\ svc = SvcIdle
    /\ kandin = KandinIdle

\* One call of get_scaled_font_size; pure keeps the last two calls.  The
\* arithmetic is deterministic: a call with the operands of the call before
\* it returns what that call returned.
CallScaledFontSize(b, p, d, m) ==
    /\ \E r \in get_scaled_font_size(b, p, d, m) :
         LET call == [called |-> TRUE, base |-> b, paper |-> p, distance |-> d,
                      min |-> m, zoom |-> get_zoom_scale_factor(d),
                      scale |-> calculate_font_scale(p, d), ret |-> r]
             last == pure.second
         IN  /\ (last.called /\ last.base = b /\ last.min = m
                   /\ last.scale = call.scale /\ last.zoom = call.zoom)
                    => r = last.ret
             /\ pure' = [fn |-> "get_scaled_font_size", first |-> last,
                         second |-> call]
    /\ UNCHANGED <<posterVars, svc, kandin, ext>>

NextFont ==
    \E bm \in FontSizes, p \in PaperSizes, d \in FontDistances :
        CallScaledFontSize(bm[1], p, d, bm[2])

SpecFont == InitFont /\ [][NextFont]_vars

(***************************************************************************)
(* SpecOverlay: apply_text_overlay.  Positions are axes fractions in        *)
(* thousandths, z-orders are times ten as in LAYER_ZORDER.                  *)
(***************************************************************************)
\* Python's None where a string is optional.
EmptyDict == [k \in {} |-> TRUE]

\* text_config arguments: None, the empty dict, dicts with one or both
\* toggles off, and a full dict that moves the block to the top left.
TextConfigs ==
    {[none |-> TRUE, map |-> EmptyDict],
     [none |-> FALSE, map |-> EmptyDict],
     [none |-> FALSE, map |-> [show_coords |-> FALSE]],
     [none |-> FALSE, map |-> [show_country |-> FALSE]],
     [none |-> FALSE, map |-> [show_coords |-> FALSE, show_country |-> FALSE]],
     [none |-> FALSE,
      map |-> [x |-> 100, y |-> 900, alignment |-> "left",
               show_coords |-> TRUE, show_country |-> TRUE]]}

\* The dict apply_text_overlay works with: the default one for None.
EffectiveConfig(text_config) ==
    IF text_config.none
    THEN [x |-> 500, y |-> 140, alignment |-> "center",
          show_coords |-> TRUE, show_country |-> TRUE]
    ELSE text_config.map

\* text_config.get(key, default)
ConfigGet(cfg, key, default) == IF key \in DOMAIN cfg THEN cfg[key] ELSE default

\* ShowCoords that draws the coordinates only under a drawn country line.
ShowCoords_UnderCountry(cfg) ==
    ConfigGet(cfg, "show_coords", TRUE) /\ ConfigGet(cfg, "show_country", TRUE)

\* `if text_config.get("show_coords", True):`
ShowCoords(cfg) == ConfigGet(cfg, "show_coords", TRUE)

\* `if text_config.get("show_country", True):`
ShowCountry(cfg) == ConfigGet(cfg, "show_country", TRUE)

Draw(element, x, y, colour) ==
    [element |-> element, x |-> x, y |-> y, z |-> 110, colour |-> colour]

\* apply_text_overlay: the exception it raises, or the artists it adds.
\* The rule's x is its left end.
apply_text_overlay(th, text_config, paper_size, distance_m, custom_subtitle, text_color) ==
    LET cfg == EffectiveConfig(text_config)
        ha == ConfigGet(cfg, "alignment", "center")
        x_pos == ConfigGet(cfg, "x", 500)
        y_pos == ConfigGet(cfg, "y", 140)
        scale_factor == calculate_font_scale(paper_size, distance_m)
        line_length == (200 * scale_factor.n) \div scale_factor.d
        line_left == IF ha = "center" THEN 500 - line_length \div 2 ELSE 100
        colour == IF Given(text_color) THEN text_color ELSE ThemeGet(th, "text", "")
        coords_y == (y_pos - (IF ShowCountry(cfg) THEN 70 ELSE 40))
                        - (IF Given(custom_subtitle) THEN 25 ELSE 0)
    IN  IF ~Given(text_color) /\ "text" \notin DOMAIN th
        THEN [error |-> Need(th, "text"), draws |-> {}]
        ELSE [error |-> NoError,
              draws |->
                  {Draw("city", x_pos, y_pos, colour)}
                  \cup (IF Given(custom_subtitle)
                        THEN {Draw("subtitle", x_pos, y_pos - 25, colour)}
                        ELSE {})
                  \cup {Draw("rule", line_left, y_pos - 40, colour)}
                  \cup (IF ShowCountry(cfg)
                        THEN {Draw("country", x_pos,
                                   y_pos - 40 - (IF Given(custom_subtitle)
                                                 THEN 25 ELSE 40),
                                   colour)}
                        ELSE {})
                  \cup (IF ShowCoords(cfg)
                        THEN {Draw("coords", x_pos, coords_y, colour)}
                        ELSE {})
                  \cup {Draw("attribution", 980, 20, colour)}]

OverlayThemes == {StdFileTheme, Without(StdFileTheme, "text")}

Subtitles == {None, "", "Old Town"}

TextColors == {None, "#C0392B"}

OverlayPapers == {"A4", "A2"}

InitOverlay ==
    /\ PosterIdle
    /\ pure = PureIdle
    /\ svc = SvcIdle
    /\ kandin = KandinIdle
    /\ Ext2Idle
    /\ overlay = OverlayIdle
    /\ cache = CacheIdle
    /\ save = SaveIdle

\* One call of apply_text_overlay on fresh axes.
ApplyTextOverlay(th, text_config, paper_size, custom_subtitle, text_color) ==
    /\ \E r \in {apply_text_overlay(th, text_config, paper_size, 8000,
                                    custom_subtitle, text_color)} :
         overlay' = [state |-> "called", theme |-> th,
                     text_config |-> text_config, paper_size |-> paper_size,
                     custom_subtitle |-> custom_subtitle,
                     text_color |-> text_color,
                     error |-> r.error, draws |-> r.draws]
    /\ UNCHANGED <<posterVars, pure, svc, kandin, cache, save, ext2>>

NextOverlay ==
    \E th \in OverlayThemes, c \in TextConfigs, p \in OverlayPapers,
       sub \in Subtitles, col \in TextColors :
        ApplyTextOverlay(th, c, p, sub, col)

SpecOverlay == InitOverlay /\ [][NextOverlay]_vars

(***************************************************************************)
(* SpecCrop: PosterGenerator.get_crop_limits.  A limit is an integer over   *)
(* the denominator `den` of the result; figure sizes are in hundredths of   *)
(* an inch.                                                                 *)
(***************************************************************************)
\* get_crop_limits that divides by the aspect ratio where it should multiply
\* (and the other way round).
get_crop_limits_WrongRatio(box, fig) ==
    LET x_range == box.maxx - box.minx
        y_range == box.maxy - box.miny
        fig_width == fig[1]
        fig_height == fig[2]
    IN  IF y_range = 0
        THEN [raised |-> Raised("ZeroDivisionError", "y_range"), den |-> 1,
              xlim |-> <<0, 0>>, ylim |-> <<0, 0>>]
        ELSE IF x_range * fig_height > y_range * fig_width
        THEN [raised |-> NoError, den |-> 2 * fig_width,
              xlim |-> <<(box.minx + box.maxx) * fig_width - y_range * fig_height,
                         (box.minx + box.maxx) * fig_width + y_range * fig_height>>,
              ylim |-> <<box.miny * 2 * fig_width, box.maxy * 2 * fig_width>>]
        ELSE IF x_range * fig_height < y_range * fig_width
        THEN [raised |-> NoError, den |-> 2 * fig_height,
              xlim |-> <<box.minx * 2 * fig_height, box.maxx * 2 * fig_height>>,
              ylim |-> <<(box.miny + box.maxy) * fig_height - x_range * fig_width,
                         (box.miny + box.maxy) * fig_height + x_range * fig_width>>]
        ELSE [raised |-> NoError, den |-> 1,
              xlim |-> <<box.minx, box.maxx>>, ylim |-> <<box.miny, box.maxy>>]

\* get_crop_limits(G, fig): box is the extent of G's nodes.
\*   current_aspect > desired_aspect  <=>  x_range * fig_height > y_range * fig_width
\*   too wide: center_x -/+ (y_range * desired_aspect) / 2, over 2 * fig_height
\*   too tall: center_y -/+ (x_range / desired_aspect) / 2, over 2 * fig_width
get_crop_limits(box, fig) ==
    LET x_range == box.maxx - box.minx
        y_range == box.maxy - box.miny
        fig_width == fig[1]
        fig_height == fig[2]
    IN  IF y_range = 0
        THEN [raised |-> Raised("ZeroDivisionError", "y_range"), den |-> 1,
              xlim |-> <<0, 0>>, ylim |-> <<0, 0>>]
        ELSE IF x_range * fig_height > y_range * fig_width
        THEN [raised |-> NoError, den |-> 2 * fig_height,
              xlim |-> <<(box.minx + box.maxx) * fig_height - y_range * fig_width,
                         (box.minx + box.maxx) * fig_height + y_range * fig_width>>,
              ylim |-> <<box.miny * 2 * fig_height, box.maxy * 2 * fig_height>>]
        ELSE IF x_range * fig_height < y_range * fig_width
        THEN [raised |-> NoError, den |-> 2 * fig_width,
              xlim |-> <<box.minx * 2 * fig_width, box.maxx * 2 * fig_width>>,
              ylim |-> <<(box.miny + box.maxy) * fig_width - x_range * fig_height,
                         (box.miny + box.maxy) * fig_width + x_range * fig_height>>]
        ELSE [raised |-> NoError, den |-> 1,
              xlim |-> <<box.minx, box.maxx>>, ylim |-> <<box.miny, box.maxy>>]

\* Node extents: degenerate, wide, tall and of the figure's own proportion.
Boxes ==
    {[minx |-> x, maxx |-> x + w, miny |-> y, maxy |-> y + h] :
        x \in {0, 10}, w \in {0, 20, 30, 60}, y \in {0, 5}, h \in {0, 20, 45, 60}}

\* Figure sizes: A4 and A2 of PAPER_SIZES, and 2 x 3, 3 x 2 inches.
FigSizes == {<<827, 1169>>, <<1654, 2339>>, <<200, 300>>, <<300, 200>>}

InitCrop ==
    /\ PosterIdle
    /\ ExtIdle
    /\ pure = [fn |-> "none"]
    /\ svc = SvcIdle
    /\ kandin = KandinIdle

CallCropLimits(box, fig) ==
    /\ pure' = [fn |-> "get_crop_limits", box |-> box, fig |-> fig,
                ret |-> get_crop_limits(box, fig)]
    /\ UNCHANGED <<posterVars, svc, kandin, ext>>

NextCrop == \E box \in Boxes, fig \in FigSizes : CallCropLimits(box, fig)

SpecCrop == InitCrop /\ [][NextCrop]_vars

(***************************************************************************)
(* SpecCache: fetch_features of several processes over one cache directory *)
(* (modules/geocoding.py cache_get / cache_set), no locking.                *)
(***************************************************************************)
\* Processes that fetch at the same time (preview workers, or two runs).
NumFetchers == 2

\* Calls one process makes, one after the other.
MaxFetches == 2

Fetchers == 1..NumFetchers

\* tags dicts in insertion order: <<key, value>> pairs.
WaterTags == <<<<"natural", "water">>>>

Req(name, point, dist, tags) ==
    [name |-> name, point |-> point, dist |-> dist, tags |-> tags]

\* fetch_features arguments: one request and its variations in the layer
\* name, the point, the distance, a tag value and the tag keys.
Requests ==
    {Req("water", <<52, 13>>, 5000, WaterTags),
     Req("parks", <<52, 13>>, 5000, WaterTags),
     Req("water", <<48, 11>>, 5000, WaterTags),
     Req("water", <<52, 13>>, 8000, WaterTags),
     Req("water", <<52, 13>>, 5000, <<<<"natural", "wood">>>>),
     Req("water", <<52, 13>>, 5000,
         <<<<"natural", "water">>, <<"waterway", "riverbank">>>>)}

\* fetch_graph arguments.
GraphRequests == {Req("graph", <<52, 13>>, 5000, <<>>)}

\* tag_str = "_".join(tags.keys())
TagStr(tags) == [i \in 1..Len(tags) |-> tags[i][1]]

\* cache_key = f"{name}_{lat}_{lon}_{dist}_{tag_str}"
CacheKey(req) == <<req.name, req.point[1], req.point[2], req.dist, TagStr(req.tags)>>

\* cache_key = f"graph_{lat}_{lon}_{dist}"
GraphKey(req) == <<"graph", req.point[1], req.point[2], req.dist>>

\* cache_file(key): CACHE_DIR / md5(key).pkl; distinct keys get distinct
\* files.
cache_file(key) == <<"md5", key>>

CacheFiles ==
    {cache_file(CacheKey(r)) : r \in Requests}
    \cup {cache_file(GraphKey(r)) : r \in GraphRequests}

\* What OSM answers to a request: the features of that request.
Data(req) == [kind |-> "data", of |-> req]

NoData == [kind |-> "None"]

FileAbsent == [state |-> "absent"]

\* A process before its first call.  Of a call: external, whether it sent a
\* request to OSM; found, the state of the cache file at the lookup; wrote,
\* how its cache_set ended ("none": not called); clean, no other process has
\* opened or written the file since this one opened it.  Of the process: calls, the calls
\* begun; prev, the arguments of the call before this one and whether that
\* call stored what it fetched and the file has been left alone since.
IdleFetcher ==
    [pc |-> "idle", req |-> Req("", <<0, 0>>, 0, <<>>), file |-> <<>>,
     data |-> NoData, clean |-> FALSE, result |-> NoData, from |-> "none",
     error |-> NoError, external |-> FALSE, found |-> "none",
     wrote |-> "none", calls |-> 0,
     prev |-> [req |-> Req("", <<0, 0>>, 0, <<>>), stored |-> FALSE]]

InitCache ==
    /\ PosterIdle
    /\ pure = PureIdle
    /\ svc = SvcIdle
    /\ kandin = KandinIdle
    /\ Ext2Idle
    /\ overlay = OverlayIdle
    /\ save = SaveIdle
    /\ cache = [files |-> [f \in CacheFiles |-> FileAbsent],
                procs |-> [p \in Fetchers |-> IdleFetcher]]

\* cache_get that finds nothing.
cache_get_AlwaysMiss(file) == [raised |-> NoError, value |-> NoData]

\* cache_get on a file in the given state.  pickle.load raises EOFError on
\* an empty file and UnpicklingError on an incomplete one; the except clause
\* names PickleError and OSError, so EOFError leaves cache_get.
cache_get(file) ==
    IF file.state = "absent"
    THEN [raised |-> NoError, value |-> NoData]
    ELSE IF file.state = "empty"
    THEN [raised |-> Raised("EOFError", "Ran out of input"), value |-> NoData]
    ELSE IF file.state = "partial"
    THEN [raised |-> NoError, value |-> NoData]
    ELSE [raised |-> NoError, value |-> file.content]

\* The call before this one fetched from OSM, wrote the cache file, and no
\* other process has opened or written the file since.
Stored(proc) ==
    /\ proc.pc = "done"
    /\ proc.from = "osm"
    /\ proc.result # NoData
    /\ proc.wrote = "ok"
    /\ proc.clean

\* cached = cache_get(cache_key); if cached is not None: return cached.  The
\* lookup is outside the try block of the fetch.
Lookup(p, req, f) ==
    /\ cache.procs[p].pc \in {"idle", "done"}
    /\ cache.procs[p].calls < MaxFetches
    /\ LET got == cache_get(cache.files[f])
           me == [IdleFetcher EXCEPT
                     !.req = req, !.file = f,
                     !.found = cache.files[f].state,
                     !.calls = cache.procs[p].calls + 1,
                     !.prev = [req |-> cache.procs[p].req,
                               stored |-> Stored(cache.procs[p])]]
       IN  cache' = [cache EXCEPT !.procs[p] =
                IF got.raised # NoError
                THEN [me EXCEPT !.pc = "failed", !.error = got.raised]
                ELSE IF got.value # NoData
                THEN [me EXCEPT !.pc = "done", !.result = got.value,
                                !.from = "cache"]
                ELSE [me EXCEPT !.pc = "fetch"]]
    /\ UNCHANGED <<posterVars, pure, svc, kandin, overlay, save, ext2>>

\* fetch_features up to the request to OSM.
FetchFeatures(p, req) == Lookup(p, req, cache_file(CacheKey(req)))

\* fetch_graph up to the request to OSM.
FetchGraphCached(p, req) == Lookup(p, req, cache_file(GraphKey(req)))

\* ox.features_from_point or ox.graph_from_point: the data, or an exception
\* that the fetch turns into None.
OsmFetch(p) ==
    /\ cache.procs[p].pc = "fetch"
    /\ \E ok \in BOOLEAN :
         cache' = [cache EXCEPT !.procs[p] =
                IF ok
                THEN [@ EXCEPT !.pc = "open", !.external = TRUE,
                               !.data = Data(cache.procs[p].req)]
                ELSE [@ EXCEPT !.pc = "done", !.external = TRUE,
                               !.result = NoData, !.from = "osm"]]
    /\ UNCHANGED <<posterVars, pure, svc, kandin, overlay, save, ext2>>

\* The processes after p has opened or written file f: p as given, the
\* others on f no longer clean.
Disturbing(p, f, me) ==
    [q \in Fetchers |->
        IF q = p THEN me
        ELSE IF cache.procs[q].file = f
        THEN [cache.procs[q] EXCEPT !.clean = FALSE]
        ELSE cache.procs[q]]

\* cache_set, path.open("wb"): the file exists and is empty from here on;
\* what another process had written so far is gone.  An OSError becomes a
\* CacheError, which fetch_features prints and ignores.
CacheSetOpen(p) ==
    /\ cache.procs[p].pc = "open"
    /\ \E ok \in BOOLEAN :
         LET f == cache.procs[p].file
         IN  cache' =
                IF ok
                THEN [files |-> [cache.files EXCEPT ![f] = [state |-> "empty"]],
                      procs |-> Disturbing(p, f,
                          [cache.procs[p] EXCEPT !.pc = "write",
                                                 !.clean = TRUE])]
                ELSE [cache EXCEPT !.procs[p] =
                          [@ EXCEPT !.pc = "done", !.result = cache.procs[p].data,
                                    !.from = "osm", !.wrote = "error"]]
    /\ UNCHANGED <<posterVars, pure, svc, kandin, overlay, save, ext2>>

\* pickle.dump: a buffer of the pickle reaches the file before the rest, or
\* the write fails with an OSError after it; the CacheError made of it is
\* printed and the fetched data returned.
CacheSetWrite(p) ==
    /\ cache.procs[p].pc = "write"
    /\ \E ok \in BOOLEAN :
         cache' = [cache EXCEPT
             !.files[cache.procs[p].file] = [state |-> "partial"],
             !.procs = Disturbing(p, cache.procs[p].file,
                 IF ok THEN [cache.procs[p] EXCEPT !.pc = "close"]
                 ELSE [cache.procs[p] EXCEPT
                          !.pc = "done", !.result = cache.procs[p].data,
                          !.from = "osm", !.wrote = "error"])]
    /\ UNCHANGED <<posterVars, pure, svc, kandin, overlay, save, ext2>>

\* The end of the with block: the rest is written and the file closed; the
\* file is a whole pickle unless another writer truncated it meanwhile.
\* fetch_features returns the fetched data.
CacheSetClose(p) ==
    /\ cache.procs[p].pc \in {"write", "close"}
    /\ cache' = [cache EXCEPT
            !.files[cache.procs[p].file] =
                IF cache.procs[p].clean
                THEN [state |-> "complete", content |-> cache.procs[p].data]
                ELSE [state |-> "partial"],
            !.procs = Disturbing(p, cache.procs[p].file,
                [cache.procs[p] EXCEPT
                    !.pc = "done", !.result = cache.procs[p].data,
                    !.from = "osm", !.wrote = "ok"])]
    /\ UNCHANGED <<posterVars, pure, svc, kandin, overlay, save, ext2>>

\* One call in every process, with any of the requests.
NextCache ==
    \/ \E p \in Fetchers, req \in Requests :
           cache.procs[p].pc = "idle" /\ FetchFeatures(p, req)
    \/ \E p \in Fetchers, req \in GraphRequests :
           cache.procs[p].pc = "idle" /\ FetchGraphCached(p, req)
    \/ \E p \in Fetchers : OsmFetch(p)
    \/ \E p \in Fetchers : CacheSetOpen(p)
    \/ \E p \in Fetchers : CacheSetWrite(p)
    \/ \E p \in Fetchers : CacheSetClose(p)

SpecCache == InitCache /\ [][NextCache]_vars

\* The requests of the processes that call again and again.
RefetchRequests == {Req("water", <<52, 13>>, 5000, WaterTags)}

\* The processes that call again and again: two of them.
Refetchers == {p \in Fetchers : p <= 2}

\* Up to MaxFetches calls in each of these processes, one after the other.
NextRefetch ==
    \/ \E p \in Refetchers, req \in RefetchRequests : FetchFeatures(p, req)
    \/ \E p \in Refetchers, req \in GraphRequests : FetchGraphCached(p, req)
    \/ \E p \in Refetchers : OsmFetch(p)
    \/ \E p \in Refetchers : CacheSetOpen(p)
    \/ \E p \in Refetchers : CacheSetWrite(p)
    \/ \E p \in Refetchers : CacheSetClose(p)

SpecRefetch == InitCache /\ [][NextRefetch]_vars

(***************************************************************************)
(* SpecSave: figures made by generate_poster and PosterGenerator.save_poster*)
(* over pyplot's figure registry.                                           *)
(***************************************************************************)
\* Figures one behaviour creates.
MaxFigures == 3

SavePaths == {"posters/a", "posters/b"}

\* output_format arguments and fmt = output_format.lower()
OutputFormats == {"png", "PNG", "svg", "pdf"}

Lower(output_format) == IF output_format = "PNG" THEN "png" ELSE output_format

DpiValues == {150, 300}

NoFile == [written |-> FALSE]

NoSave == [called |-> FALSE]

InitSave ==
    /\ PosterIdle
    /\ pure = PureIdle
    /\ svc = SvcIdle
    /\ kandin = KandinIdle
    /\ Ext2Idle
    /\ overlay = OverlayIdle
    /\ cache = CacheIdle
    /\ \E th \in {StdFileTheme, Without(StdFileTheme, "bg")} :
         save = [theme |-> th, figs |-> <<>>, made |-> 0,
                 files |-> [f \in SavePaths |-> NoFile], last |-> NoSave]

\* plt.subplots in generate_poster: a new figure, registered with pyplot as
\* the current one (the last of figs), returned to the caller.
MakeFigure ==
    /\ save.made < MaxFigures
    /\ save' = [save EXCEPT !.made = @ + 1, !.figs = Append(@, save.made + 1)]
    /\ UNCHANGED <<posterVars, pure, svc, kandin, overlay, cache, ext2>>

\* The figure plt.savefig writes: pyplot's current figure, gcf().
CurrentFigure(figs) == figs[Len(figs)]

\* plt.close(fig)
Close(figs, fig) == SelectSeq(figs, LAMBDA g : g # fig)

\* save_poster(fig, output_path, output_format, dpi).  self.theme["bg"] is
\* read first.  plt.savefig saves pyplot's current figure; with no figure
\* open, gcf() opens a blank one (which stays open).  dpi is passed for png
\* only.  Then plt.close(fig).
SavePoster(fig, output_path, output_format, dpi) ==
    /\ fig \in 1..save.made
    /\ LET fmt == Lower(output_format)
           call == [called |-> TRUE, fig |-> fig, path |-> output_path,
                    format |-> output_format, dpi |-> dpi, error |-> NoError]
           blank == save.figs = <<>>
           figs1 == IF blank THEN <<0>> ELSE save.figs
       IN  IF "bg" \notin DOMAIN save.theme
           THEN save' = [save EXCEPT
                    !.last = [call EXCEPT !.error = Need(save.theme, "bg")]]
           ELSE save' = [save EXCEPT
                    !.files[output_path] =
                        [written |-> TRUE, content |-> CurrentFigure(figs1),
                         format |-> fmt,
                         dpi |-> IF fmt = "png" THEN dpi ELSE 0,
                         facecolor |-> save.theme["bg"]],
                    !.figs = Close(figs1, fig),
                    !.last = call]
    /\ UNCHANGED <<posterVars, pure, svc, kandin, overlay, cache, ext2>>

NextSave ==
    \/ MakeFigure
    \/ \E fig \in 1..MaxFigures, path \in SavePaths, f \in OutputFormats,
          dpi \in DpiValues :
           SavePoster(fig, path, f, dpi)

SpecSave == InitSave /\ [][NextSave]_vars

(***************************************************************************)
(* Properties of Spec                                                      *)
(***************************************************************************)
\* The layers the current call has requested with fetch_features.
Requested == {fetchLog[i] : i \in 1..Len(fetchLog)} \ {"graph"}

DrawnLayers == {d[1] : d \in drawn}

\* C1: when fetch_graph yields no graph, generate_poster raises RuntimeError
\* and returns no figure; nothing is fetched after the failed graph fetch, no
\* figure is created and no render path is entered.
C1_GraphFailureIsFatal ==
    G = "None" =>
        /\ pc = "done"
        /\ error.type = "RuntimeError"
        /\ result = "none"
        /\ figures = 0
        /\ fetchLog = <<"graph">>
        /\ renderPath = <<>>
        /\ drawn = {}

C1_Witness ==
    /\ pc = "done"
    /\ G = "None"
    /\ fetchLog = <<"graph">>
    /\ error.type = "RuntimeError"

\* What the render of the current call would return had every layer the call
\* requested come back with data.
BaselineResult ==
    RunSteps(PathSteps(RenderMode(theme), theme,
                       [l \in FeatureLayers |->
                            IF l \in Requested THEN "data" ELSE "None"])).result

\* C2: in every render mode, once the street graph is fetched, layers whose
\* fetch yields None or an empty collection never abort the render: the call
\* returns a figure whenever it would have returned one with data in every
\* requested layer, and no failed or empty layer is drawn.
C2_FailedLayersAreSkipped ==
    (pc = "done" /\ G = "graph" /\ BaselineResult = "figure") =>
        /\ result = "figure"
        /\ error = NoError
        /\ \A l \in FeatureLayers : feat[l] # "data" => l \notin DrawnLayers
        /\ feat["buildings"] # "data" => "window_lights" \notin DrawnLayers

C2_Witness ==
    /\ pc = "done"
    /\ RenderMode(theme) = "night_lights"
    /\ feat["buildings"] = "empty"
    /\ feat["water"] = "None"
    /\ feat["parks"] = "empty"
    /\ result = "figure"

\* C3: a call that reaches the mode dispatch enters exactly one render path,
\* the one named by the theme's mode key ("night_lights", "holonight",
\* "kandincity"), and the standard path for an absent or any other mode.
C3_ExactlyOneRenderPath ==
    (pc = "done" /\ G = "graph") =>
        /\ Len(renderPath) = 1
        /\ LET mode == IF "mode" \in DOMAIN theme THEN theme["mode"] ELSE "absent"
           IN  renderPath[1] =
                   IF mode \in {"night_lights", "holonight", "kandincity"}
                   THEN mode ELSE "standard"

C3_Witness ==
    /\ pc = "done"
    /\ "mode" \in DOMAIN theme
    /\ theme["mode"] = "blueprint"
    /\ renderPath = <<"standard">>
    /\ result = "figure"

\* C6: for a theme loaded from a file, every required key resolves at render
\* time (the file's value or the built-in default's), so no render fails on a
\* required key the file omits.
C6_RequiredKeysResolve ==
    (pc = "done" /\ themeFile.kind = "object" /\ G = "graph") =>
        ~(error.type = "KeyError" /\ error.arg \in REQUIRED_THEME_KEYS)

\* C7: load_theme never raises for a missing or unparsable theme file: the
\* theme is the built-in default and one warning is printed.
C7_LoadThemeNeverRaises ==
    (pc # "new" /\ themeFile.kind \in {"missing", "unreadable", "bad_encoding",
                                       "bad_json"}) =>
        /\ pc # "ctor_error"
        /\ theme = DEFAULT_THEME_COLORS
        /\ warnings = 1

C9_DefaultsAbove8000 ==
    \A i \in 1..Len(pure.log) :
        pure.log[i][1] > 8000 =>
            /\ pure.log[i][2].raised = NoError
            /\ pure.log[i][2].value = LayerDict({"waterways", "railways"})

C4_DistanceRejectedBeforeFetch ==
    (svc.last.called /\ svc.last.distance > ConfiguredMax(svc.config)) =>
        /\ svc.last.error # NoError
        /\ svc.last.initialized => svc.last.error.type = "ValueError"
        /\ svc.last.ctorCalls = 0
        /\ svc.last.fetches = 0

C4_Witness ==
    /\ svc.last.called
    /\ svc.last.initialized
    /\ svc.config = [max_distance |-> 20000]
    /\ svc.last.distance = 20001
    /\ svc.last.error.type = "ValueError"
    /\ svc.last.ctorCalls = 0

\* C5: for a fixed palette the same geometry (same WKT) gets the same block
\* colour in every render, in whichever process the render runs.
C5_BlockColourDeterministic ==
    \A p, q \in Procs, w \in Wkts :
        (kandin.colour[p][w] # "none" /\ kandin.colour[q][w] # "none")
            => kandin.colour[p][w] = kandin.colour[q][w]

(***************************************************************************)
(* Properties of SpecFont                                                  *)
(***************************************************************************)
FontCalls == {c \in {pure.first, pure.second} : c.called}

SupportedPapers == {"A2", "A3", "A4", "A5"}

\* The integers nearest to n / d (two of them on a tie).
Nearest(n, d) == {k \in (n \div d)..(n \div d + 1) :
                      2 * (IF n >= k * d THEN n - k * d ELSE k * d - n) <= d}

\* C11: for the paper sizes A2..A5 and every distance, get_scaled_font_size
\* returns max(round(base_size * paper_scale * zoom_scale), min_size).
C11_ScaledSizeIsRounded ==
    \A c \in FontCalls :
        c.paper \in SupportedPapers =>
            \E k \in Nearest(c.base * c.scale.n, c.scale.d) :
                c.ret = Max(k, c.min)

\* The sheets ordered by size.
PaperRank == [A5 |-> 1, A4 |-> 2, A3 |-> 3, A2 |-> 4]

\* C12: get_scaled_font_size never returns less than min_size; with the other
\* arguments fixed it does not grow when the distance decreases, and it does
\* not grow when the paper shrinks (A2 >= A3 >= A4 >= A5).
C12_ScaledSizeMonotoneWithFloor ==
    /\ \A c \in FontCalls : c.ret >= c.min
    /\ \A a, b \in FontCalls :
         (a.base = b.base /\ a.min = b.min
            /\ a.paper \in SupportedPapers /\ b.paper \in SupportedPapers) =>
             /\ (a.paper = b.paper /\ a.distance <= b.distance)
                    => a.ret <= b.ret
             /\ (a.distance = b.distance
                    /\ PaperRank[a.paper] <= PaperRank[b.paper])
                    => a.ret <= b.ret

C12_Witness ==
    /\ pure.fn = "get_scaled_font_size"
    /\ pure.first.called
    /\ pure.first.base = 25 /\ pure.first.paper = "A5"
    /\ pure.first.distance = 15000 /\ pure.first.ret = 17
    /\ pure.second.base = 25 /\ pure.second.paper = "A5"
    /\ pure.second.min = 16
    /\ pure.second.distance = 400 /\ pure.second.ret = 16

\* C13: get_zoom_scale_factor is 0.4 up to 500 m and 1.0 from 15000 m on,
\* stays within [0.4, 1.0], lies on the straight line between the two control
\* points around the distance, and does not decrease when the distance grows.
C13_ZoomScaleClampedMonotone ==
    /\ \A c \in FontCalls :
         /\ c.distance <= 500 => c.zoom = Frac(2, 5)
         /\ c.distance >= 15000 => c.zoom = Frac(1, 1)
         /\ FracLeq(Frac(2, 5), c.zoom) /\ FracLeq(c.zoom, Frac(1, 1))
         /\ \A i \in 1..(Len(ZOOM_SCALE_FACTORS) - 1) :
              LET lo == ZOOM_SCALE_FACTORS[i]
                  hi == ZOOM_SCALE_FACTORS[i + 1]
              IN  (lo[1] <= c.distance /\ c.distance <= hi[1]) =>
                      c.zoom.n * 100 * (hi[1] - lo[1])
                          = c.zoom.d * (lo[2] * (hi[1] - lo[1])
                                          + (c.distance - lo[1]) * (hi[2] - lo[2]))
    /\ \A a, b \in FontCalls :
         a.distance <= b.distance => FracLeq(a.zoom, b.zoom)

C13_Witness ==
    /\ pure.fn = "get_scaled_font_size"
    /\ pure.first.called
    /\ pure.first.distance = 400 /\ pure.first.zoom = Frac(2, 5)
    /\ pure.second.distance = 3000 /\ pure.second.zoom = Frac(27, 40)

(***************************************************************************)
(* Properties of SpecOverlay                                               *)
(***************************************************************************)
\* The value of a toggle of the text_config argument as the caller gave it
\* (a toggle that is not given is on).
Toggle(text_config, key) ==
    IF text_config.none \/ key \notin DOMAIN text_config.map
    THEN TRUE
    ELSE text_config.map[key]

Elements == {d.element : d \in overlay.draws}

\* The stacking order of the text block, top to bottom.
BlockOrder == <<"city", "subtitle", "rule", "country", "coords">>

\* C14: whatever the toggles and the subtitle, the drawn elements of the
\* block are stacked city, subtitle, rule, country, coordinates: each one is
\* strictly below every drawn element that comes before it in this order.
C14_BlockStackedInOrder ==
    overlay.state = "called" =>
        \A i, j \in 1..Len(BlockOrder) :
            i < j =>
                \A a, b \in overlay.draws :
                    (a.element = BlockOrder[i] /\ b.element = BlockOrder[j])
                        => b.y < a.y

\* C15: an overlay that is drawn always has the city name and the
\* attribution; it has the country exactly when show_country is on, the
\* coordinates exactly when show_coords is on and the subtitle exactly when
\* one is supplied, each whatever the other two are.
C15_TogglesIndependent ==
    (overlay.state = "called" /\ overlay.error = NoError) =>
        /\ "city" \in Elements
        /\ "attribution" \in Elements
        /\ "country" \in Elements <=> Toggle(overlay.text_config, "show_country")
        /\ "coords" \in Elements <=> Toggle(overlay.text_config, "show_coords")
        /\ "subtitle" \in Elements <=> overlay.custom_subtitle \notin {None, ""}

C15_Witness ==
    /\ overlay.state = "called"
    /\ overlay.error = NoError
    /\ overlay.text_config = [none |-> FALSE, map |-> [show_country |-> FALSE]]
    /\ overlay.custom_subtitle = None
    /\ Elements = {"city", "rule", "coords", "attribution"}

(***************************************************************************)
(* Properties of Spec: z-order                                             *)
(***************************************************************************)
\* C16: in standard mode every layer is drawn at its z-order of the
\* LAYER_ZORDER table, so the road network (5) lies above every feature
\* layer and below the gradient fades (10) and the text (11).
C16_StandardZOrderTable ==
    renderPath = <<"standard">> =>
        /\ \A d \in drawn :
             d[1] \in DOMAIN LAYER_ZORDER => d[2] = LAYER_ZORDER[d[1]]
        /\ \A r, f \in drawn :
             /\ (r[1] = "roads" /\ f[1] \in FeatureLayers) => f[2] < r[2]
             /\ (r[1] = "roads" /\ f[1] \in {"gradients", "text"}) => r[2] < f[2]

(***************************************************************************)
(* Properties of SpecCrop                                                  *)
(***************************************************************************)
\* C17: for node extents of positive width and height the crop window has
\* the figure's width / height ratio, the centre of the node bounding box,
\* and lies inside the box with one axis at its full extent.
C17_CropKeepsAspectAndCentre ==
    (pure.fn = "get_crop_limits"
        /\ pure.box.maxx > pure.box.minx /\ pure.box.maxy > pure.box.miny) =>
        LET r == pure.ret
            b == pure.box
        IN  /\ r.raised = NoError
            /\ (r.xlim[2] - r.xlim[1]) * pure.fig[2]
                   = (r.ylim[2] - r.ylim[1]) * pure.fig[1]
            /\ r.xlim[1] + r.xlim[2] = (b.minx + b.maxx) * r.den
            /\ r.ylim[1] + r.ylim[2] = (b.miny + b.maxy) * r.den
            /\ b.minx * r.den <= r.xlim[1] /\ r.xlim[2] <= b.maxx * r.den
            /\ b.miny * r.den <= r.ylim[1] /\ r.ylim[2] <= b.maxy * r.den
            /\ \/ r.xlim = <<b.minx * r.den, b.maxx * r.den>>
               \/ r.ylim = <<b.miny * r.den, b.maxy * r.den>>

C17_Witness ==
    /\ pure.fn = "get_crop_limits"
    /\ pure.box = [minx |-> 10, maxx |-> 70, miny |-> 5, maxy |-> 25]
    /\ pure.fig = <<827, 1169>>
    /\ pure.ret.raised = NoError
    /\ pure.ret.xlim[1] > pure.box.minx * pure.ret.den
    /\ pure.ret.ylim = <<5 * pure.ret.den, 25 * pure.ret.den>>

(***************************************************************************)
(* Properties of SpecCache                                                 *)
(***************************************************************************)
Started == {p \in Fetchers : cache.procs[p].pc # "idle"}

\* C18: two fetch_features calls that differ in the layer name, the point,
\* the distance or the tag-set (keys or values) use different cache files,
\* and a call that is served from the cache gets the data of its own request.
C18_CacheKeyCoversTagSet ==
    /\ \A p, q \in Started :
         cache.procs[p].req # cache.procs[q].req
             => cache.procs[p].file # cache.procs[q].file
    /\ \A p \in Started :
         (cache.procs[p].pc = "done" /\ cache.procs[p].from = "cache")
             => cache.procs[p].result = Data(cache.procs[p].req)

\* C19: with several processes on one key and no locking every fetch ends
\* with fetched data or with a complete cached entry: a reader that meets a
\* file another process is still writing takes it for a miss and does not
\* fail.
C19_ConcurrentFetchNeverFails ==
    \A p \in Fetchers :
        /\ cache.procs[p].pc # "failed"
        /\ cache.procs[p].error = NoError
        /\ (cache.procs[p].pc = "done" /\ cache.procs[p].from = "cache")
               => cache.procs[p].result.kind = "data"

(***************************************************************************)
(* Properties of SpecSave                                                  *)
(***************************************************************************)
\* C20: after any generate_poster calls, save_poster(fig, path, format, dpi)
\* writes the figure passed as fig to path, applies the dpi for PNG only,
\* and has released fig when the file is written.
C20_SavesTheFigurePassed ==
    (save.last.called /\ save.last.error = NoError) =>
        LET file == save.files[save.last.path]
        IN  /\ file.written
            /\ file.content = save.last.fig
            /\ file.dpi = (IF save.last.format \in {"png", "PNG"}
                           THEN save.last.dpi ELSE 0)
            /\ \A i \in 1..Len(save.figs) : save.figs[i] # save.last.fig

(***************************************************************************)
(* SpecFilename: PosterGenerator.generate_output_filename and the clock    *)
(***************************************************************************)
\* Clock readings in one second: datetime.now() is finer than the
\* %Y%m%d_%H%M%S stamp made of it.
TicksPerSecond == 2

MaxClock == 3

Clock == 0..MaxClock

\* City names as their characters.
Cities == {<<"L", "a", " ", "P", "a", "z">>, <<"r", "o", "m", "e">>}

FilenameThemes == {"noir", "ocean"}

\* str.lower() on one character.
LowerChar(c) == CASE c = "L" -> "l" [] c = "P" -> "p" [] OTHER -> c

\* city.lower().replace(" ", "_")
Slug(city) ==
    [i \in DOMAIN city |->
        IF LowerChar(city[i]) = " " THEN "_" ELSE LowerChar(city[i])]

\* datetime.now().strftime("%Y%m%d_%H%M%S"): the whole seconds of the clock.
Timestamp(now) == now \div TicksPerSecond

\* f"{city_slug}_{theme_name}_{timestamp}.{ext}", as its four parts.
generate_output_filename(city, theme_name, output_format, now) ==
    [slug |-> Slug(city), theme |-> theme_name,
     timestamp |-> Timestamp(now), ext |-> Lower(output_format)]

NoNameCall == [called |-> FALSE]

InitFilename ==
    /\ themeFile = NoTheme /\ theme = NoTheme /\ warnings = <<>>
    /\ pc = "new" /\ distance = 0 /\ layers = NoLayers
    /\ G = "unset" /\ feat = NoFeatures /\ fetchLog = <<>>
    /\ result = "none" /\ error = NoError /\ figures = 0
    /\ renderPath = <<>> /\ drawn = <<>>
    /\ pure = [fn |-> "generate_output_filename", now |-> 0,
               first |-> NoNameCall, second |-> NoNameCall]
    /\ svc = SvcIdle
    /\ kandin = KandinIdle
    /\ ExtIdle

\* Time passes between calls.
ClockTick ==
    /\ pure.now < MaxClock
    /\ pure' = [pure EXCEPT !.now = @ + 1]
    /\ UNCHANGED <<posterVars, svc, kandin, ext>>

\* One call of generate_output_filename; the two latest calls are kept.
CallOutputFilename ==
    /\ \E city \in Cities, th \in FilenameThemes, fmt \in OutputFormats :
           pure' = [pure EXCEPT
               !.first = pure.second,
               !.second = [called |-> TRUE, city |-> city, theme |-> th,
                           format |-> fmt, at |-> pure.now,
                           ret |-> generate_output_filename(city, th, fmt,
                                                            pure.now)]]
    /\ UNCHANGED <<posterVars, svc, kandin, ext>>

NextFilename == ClockTick \/ CallOutputFilename

SpecFilename == InitFilename /\ [][NextFilename]_vars

(***************************************************************************)
(* SpecMain: create_map_poster.main and the posters directory              *)
(***************************************************************************)
MaxRuns == 2

MainFormats == {"png", "svg", "pdf"}

\* The themes a run may name; "missing" has no file in the themes directory.
MainThemes == {"noir", "missing"}

AvailableThemes == {"noir"}

\* What an external step of a run does: the geocoder and generate_poster
\* return or raise; plt.savefig returns, raises before it has opened the
\* file, or raises while it writes.
StepOutcomes == {"ok", "raise"}

SavefigOutcomes == {"ok", "raise_unopened", "raise_writing"}

OutputNames ==
    {generate_output_filename(c, t, f, n) :
        c \in Cities, t \in AvailableThemes, f \in MainFormats, n \in Clock}

NoRun == [called |-> FALSE]

InitMain ==
    /\ themeFile = NoTheme /\ theme = NoTheme /\ warnings = <<>>
    /\ pc = "new" /\ distance = 0 /\ layers = NoLayers
    /\ G = "unset" /\ feat = NoFeatures /\ fetchLog = <<>>
    /\ result = "none" /\ error = NoError /\ figures = 0
    /\ renderPath = <<>> /\ drawn = <<>>
    /\ pure = PureIdle
    /\ svc = SvcIdle
    /\ kandin = KandinIdle
    /\ overlay = OverlayIdle
    /\ cache = CacheIdle
    /\ save = SaveIdle
    /\ registry = RegistryIdle
    /\ geo = GeoIdle
    /\ run = [now |-> 0, runs |-> 0,
              files |-> [n \in OutputNames |-> "absent"], last |-> NoRun]

MainTick ==
    /\ run.now < MaxClock
    /\ run' = [run EXCEPT !.now = @ + 1]
    /\ UNCHANGED <<posterVars, pure, svc, kandin, overlay, cache, save,
                   registry, geo>>

\* What plt.savefig leaves at the path: the whole poster, nothing new, or the
\* part written before the failure (the file is opened for writing, so what
\* it held before is gone).
Savefig(files, path, outcome) ==
    CASE outcome = "ok" -> [files EXCEPT ![path] = "complete"]
      [] outcome = "raise_unopened" -> files
      [] outcome = "raise_writing" -> [files EXCEPT ![path] = "partial"]

Ended(city, th, fmt, ret, printed, failed, path) ==
    [called |-> TRUE, city |-> city, theme |-> th, format |-> fmt,
     ret |-> ret, printed |-> printed, failed |-> failed, path |-> path]

\* main() for --city, --country, --theme and --format; path is the set of
\* output paths the run came to write to.
Main(city, th, fmt, geocoded, generated, saved) ==
    /\ run.runs < MaxRuns
    /\ LET path == generate_output_filename(city, th, fmt, run.now)
       IN  run' = [run EXCEPT
             !.runs = @ + 1,
             !.files =
                 IF th \in AvailableThemes /\ geocoded = "ok"
                    /\ generated = "ok"
                 THEN Savefig(run.files, path, saved)
                 ELSE run.files,
             !.last =
                 IF th \notin AvailableThemes
                 THEN Ended(city, th, fmt, 1, "Error: Theme not found",
                            "theme", {})
                 ELSE IF geocoded = "raise"
                 THEN Ended(city, th, fmt, 1, "Geocoding failed: e",
                            "geocoding", {})
                 ELSE IF generated = "raise"
                 THEN Ended(city, th, fmt, 1, "Error: e", "rendering", {})
                 ELSE IF saved # "ok"
                 THEN Ended(city, th, fmt, 1, "Error: e", "saving", {path})
                 ELSE Ended(city, th, fmt, 0, "Saved to: path", "none",
                            {path})]
    /\ UNCHANGED <<posterVars, pure, svc, kandin, overlay, cache, save,
                   registry, geo>>

NextMain ==
    \/ MainTick
    \/ \E city \in Cities, th \in MainThemes, fmt \in MainFormats,
          geocoded \in StepOutcomes, generated \in StepOutcomes,
          saved \in SavefigOutcomes :
           Main(city, th, fmt, geocoded, generated, saved)

SpecMain == InitMain /\ [][NextMain]_vars

(***************************************************************************)
(* Properties of SpecMain and SpecFilename                                 *)
(***************************************************************************)
\* C21: a run of main that fails at any step (geocoding, fetching, rendering
\* or saving) reports an error and returns 1, and no partly written file is
\* left at the output path.
C21_FailedRunLeavesNoPartialFile ==
    (run.last.called /\ run.last.ret # 0) =>
        /\ run.last.printed # "Saved to: path"
        /\ \A path \in run.last.path : run.files[path] # "partial"

\* C24: generate_output_filename returns slug, theme, timestamp and
\* extension, and two calls one after the other for the same city, theme and
\* format return different filenames.
C24_FilenamesDiffer ==
    (pure.first.called /\ pure.second.called) =>
        /\ pure.second.ret.slug = Slug(pure.second.city)
        /\ pure.second.ret.theme = pure.second.theme
        /\ pure.second.ret.ext \in {"png", "svg", "pdf"}
        /\ (/\ pure.first.city = pure.second.city
            /\ pure.first.theme = pure.second.theme
            /\ pure.first.format = pure.second.format)
               => pure.first.ret # pure.second.ret

(***************************************************************************)
(* Properties of SpecService: colour overrides                             *)
(***************************************************************************)
\* The named theme with the overrides laid over it.
Overlaid(named, ov) ==
    [k \in DOMAIN named \cup DOMAIN FinalCustomTheme(ov) |->
        IF k \in DOMAIN FinalCustomTheme(ov) THEN FinalCustomTheme(ov)[k]
        ELSE named[k]]

\* C22: a service call with a named theme and colour overrides (bg_color,
\* water_color, parks_color, road_colors) renders with a theme that has the
\* override value for each overridden key and the named theme's value for
\* every other key.
C22_OverridesLaidOverNamedTheme ==
    (/\ svc.last.called
     /\ svc.last.initialized
     /\ ~DistanceRejected(svc.last.distance, svc.max_distance))
        => svc.last.theme = Overlaid(StdFileTheme, svc.last.overrides)

(***************************************************************************)
(* SpecLights: add_window_lights on one frame of buildings                 *)
(***************************************************************************)
MaxRows == 2

\* Bounding-box sides in tenths of a metre.
Sides == {99, 100, 400, 1000}

\* The rows of buildings_gdf: polygons of every size, an empty polygon
\* (nan: its bounds are all NaN, w and h are unused) and a point.
BuildingRows ==
    {[type |-> "Polygon", nan |-> FALSE, w |-> w, h |-> h] :
        w \in Sides, h \in Sides \ {100}}
    \cup {[type |-> "Polygon", nan |-> TRUE, w |-> 0, h |-> 0],
          [type |-> "Point", nan |-> FALSE, w |-> 0, h |-> 0]}

BuildingFrames ==
    UNION {[1..n -> BuildingRows] : n \in 0..MaxRows}

\* if (maxx - minx) < 10 or (maxy - miny) < 10: continue.  Comparisons with
\* NaN are false.
TooSmall(row) == ~row.nan /\ (row.w < 100 \/ row.h < 100)

num_lights_NoCap(row) == (row.w * row.h) \div 40000

\* min(int(area / 400), 6), the area in square metres.
num_lights(row) ==
    IF (row.w * row.h) \div 40000 < 6 THEN (row.w * row.h) \div 40000 ELSE 6

\* The numbers of lights one row can add: none for a row that is filtered
\* out or skipped; none for an empty geometry, where int(nan) raises and the
\* except clause moves on; otherwise one for each of the num_lights random
\* points that the geometry contains, as many as were added before a raise.
RowLights(row) ==
    IF row.type \notin {"Polygon", "MultiPolygon"} THEN {0}
    ELSE IF row.nan THEN {0}
    ELSE IF TooSmall(row) THEN {0}
    ELSE 0..num_lights(row)

\* The lights of a frame, row after row.
RECURSIVE FrameLights(_)
FrameLights(frame) ==
    IF frame = <<>> THEN {<<>>}
    ELSE {Append(lights, n) :
            lights \in FrameLights(SubSeq(frame, 1, Len(frame) - 1)),
            n \in RowLights(frame[Len(frame)])}

Sum(f) == LET S[i \in 0..Len(f)] == IF i = 0 THEN 0 ELSE S[i - 1] + f[i] IN S[Len(f)]

InitLights ==
    /\ PosterIdle
    /\ ExtIdle
    /\ svc = SvcIdle
    /\ kandin = KandinIdle
    /\ \E frame \in BuildingFrames :
         pure = [fn |-> "add_window_lights", frame |-> frame, called |-> FALSE,
                 lights |-> <<>>, scatters |-> {}]

\* add_window_lights(ax, buildings_gdf, ..., zorder=8): the lights of every
\* row, then the three scatters when there is any light.
AddWindowLights ==
    /\ ~pure.called
    /\ \E lights \in FrameLights(pure.frame) :
         pure' = [pure EXCEPT
                    !.called = TRUE,
                    !.lights = lights,
                    !.scatters = IF Sum(lights) > 0 THEN {8, 9, 10} ELSE {}]
    /\ UNCHANGED <<posterVars, svc, kandin, ext>>

NextLights == AddWindowLights

SpecLights == InitLights /\ [][NextLights]_vars

(***************************************************************************)
(* Properties of SpecLights                                                *)
(***************************************************************************)
\* C23: window lights are added only for buildings whose bounding box is at
\* least 10 wide and at least 10 high: a building under 10 in width or height
\* adds none, and no building adds more than 6.
C23_WindowLightsPerBuilding ==
    pure.called =>
        \A i \in 1..Len(pure.frame) :
            /\ pure.lights[i] <= 6
            /\ pure.lights[i] > 0 =>
                   /\ ~pure.frame[i].nan
                   /\ pure.frame[i].w >= 100
                   /\ pure.frame[i].h >= 100

C23_Witness ==
    /\ pure.called
    /\ Len(pure.frame) = 2
    /\ pure.frame[1] = [type |-> "Polygon", nan |-> FALSE, w |-> 1000, h |-> 1000]
    /\ pure.lights[1] = 6
    /\ pure.frame[2] = [type |-> "Polygon", nan |-> FALSE, w |-> 99, h |-> 1000]
    /\ pure.lights[2] = 0
    /\ pure.scatters = {8, 9, 10}

(***************************************************************************)
(* SpecRegistry: ServiceRegistry and the coroutines that call it           *)
(***************************************************************************)
\* Coroutines of the event loop that can be inside a registry call at once.
NumTasks == 2

Tasks == 1..NumTasks

ServiceNames == {"geocoding", "generator"}

\* ServiceMetadata.dependencies of the two services.
Dependencies(name) == IF name = "generator" THEN {"geocoding"} ELSE {}

\* What awaiting initialize() or shutdown() gives.
AwaitOutcomes == {"true", "false", "raise"}

IdleTask == [pc |-> "idle", name |-> None, rest |-> <<>>, clean |-> FALSE]

NoReturn ==
    [op |-> "none", name |-> None, ret |-> FALSE, clean |-> FALSE, left |-> {}]

\* self._enabled.get(name, False)
IsEnabled(enabled, name) == name \in DOMAIN enabled /\ enabled[name]

\* The keys of self._enabled that are enabled.
EnabledNames(enabled) == {n \in DOMAIN enabled : enabled[n]}

InitRegistry ==
    /\ PosterIdle
    /\ pure = PureIdle
    /\ svc = SvcIdle
    /\ kandin = KandinIdle
    /\ overlay = OverlayIdle
    /\ cache = CacheIdle
    /\ save = SaveIdle
    /\ geo = GeoIdle
    /\ run = RunIdle
    /\ registry = [order |-> <<>>,
                   enabled |-> [n \in {} |-> FALSE],
                   status |-> [n \in {} |-> "disabled"],
                   tasks |-> [t \in Tasks |-> IdleTask],
                   returned |-> [t \in Tasks |-> NoReturn]]

RegistryUnchanged ==
    UNCHANGED <<posterVars, pure, svc, kandin, overlay, cache, save, geo, run>>

\* A call that begins in task t overlaps every shutdown_all that is under
\* way in another task: that shutdown_all is no longer clean.
Overlapping(tasks, t) ==
    [u \in Tasks |-> IF u # t THEN [tasks[u] EXCEPT !.clean = FALSE]
                     ELSE tasks[u]]

Returns(t, op, name, ret) ==
    [registry.returned EXCEPT
        ![t] = [op |-> op, name |-> name, ret |-> ret, clean |-> FALSE,
                left |-> {}]]

\* ServiceRegistry.register: a name registers once; dicts keep the order of
\* insertion.
Register(name) ==
    /\ \A i \in 1..Len(registry.order) : registry.order[i] # name
    /\ registry' = [registry EXCEPT
           !.order = Append(@, name),
           !.enabled = [n \in DOMAIN @ \cup {name} |->
                           IF n = name THEN FALSE ELSE @[n]],
           !.status = [n \in DOMAIN @ \cup {name} |->
                          IF n = name THEN "disabled" ELSE @[n]]]
    /\ RegistryUnchanged

\* ServiceRegistry.enable up to `await service.initialize()`.
EnableCall(t, name) ==
    /\ registry.tasks[t].pc = "idle"
    /\ IF name \notin DOMAIN registry.enabled
       THEN registry' = [registry EXCEPT
                !.tasks = Overlapping(@, t),
                !.returned = Returns(t, "enable", name, FALSE)]
       ELSE IF IsEnabled(registry.enabled, name)
       THEN registry' = [registry EXCEPT
                !.tasks = Overlapping(@, t),
                !.returned = Returns(t, "enable", name, TRUE)]
       ELSE IF \E dep \in Dependencies(name) : ~IsEnabled(registry.enabled, dep)
       THEN registry' = [registry EXCEPT
                !.tasks = Overlapping(@, t),
                !.returned = Returns(t, "enable", name, FALSE)]
       ELSE registry' = [registry EXCEPT
                !.status[name] = "loading",
                !.tasks = [Overlapping(@, t) EXCEPT
                              ![t] = [pc |-> "enable_await", name |-> name,
                                      rest |-> <<>>, clean |-> FALSE]]]
    /\ RegistryUnchanged

\* ServiceRegistry.enable from the await on.
EnableResume(t, outcome) ==
    /\ registry.tasks[t].pc = "enable_await"
    /\ LET name == registry.tasks[t].name
       IN  registry' = [registry EXCEPT
               !.enabled[name] = IF outcome = "true" THEN TRUE ELSE @,
               !.status[name] = IF outcome = "true" THEN "enabled" ELSE "error",
               !.tasks[t] = IdleTask,
               !.returned = Returns(t, "enable", name, outcome = "true")]
    /\ RegistryUnchanged

\* for name, meta in self._metadata.items(): an enabled service that depends
\* on this one.
HasEnabledDependent(enabled, name) ==
    \E n \in DOMAIN enabled : name \in Dependencies(n) /\ enabled[n]

\* disable() up to `await service.shutdown()`: "refused", "noop" or "await".
DisableEntry(enabled, name) ==
    IF name \notin DOMAIN enabled THEN "refused"
    ELSE IF ~IsEnabled(enabled, name) THEN "noop"
    ELSE IF HasEnabledDependent(enabled, name) THEN "refused"
    ELSE "await"

\* ServiceRegistry.disable up to `await service.shutdown()`.
DisableCall(t, name) ==
    /\ registry.tasks[t].pc = "idle"
    /\ IF DisableEntry(registry.enabled, name) = "await"
       THEN registry' = [registry EXCEPT
                !.tasks = [Overlapping(@, t) EXCEPT
                              ![t] = [pc |-> "disable_await", name |-> name,
                                      rest |-> <<>>, clean |-> FALSE]]]
       ELSE registry' = [registry EXCEPT
                !.tasks = Overlapping(@, t),
                !.returned = Returns(t, "disable", name,
                                 DisableEntry(registry.enabled, name) = "noop")]
    /\ RegistryUnchanged

\* ServiceRegistry.disable from the await on.
DisableResume(t, outcome) ==
    /\ registry.tasks[t].pc = "disable_await"
    /\ LET name == registry.tasks[t].name
       IN  registry' = [registry EXCEPT
               !.enabled[name] = IF outcome = "true" THEN FALSE ELSE @,
               !.status[name] = IF outcome = "true" THEN "disabled" ELSE @,
               !.tasks[t] = IdleTask,
               !.returned = Returns(t, "disable", name, outcome = "true")]
    /\ RegistryUnchanged

\* The names of the loop of shutdown_all from the first one whose disable()
\* comes to await shutdown(); the names before it are not enabled or their
\* disable() returns at once.
RECURSIVE NextToShutDown(_, _)
NextToShutDown(enabled, rest) ==
    IF rest = <<>> THEN <<>>
    ELSE IF IsEnabled(enabled, Head(rest))
            /\ DisableEntry(enabled, Head(rest)) = "await"
    THEN rest
    ELSE NextToShutDown(enabled, Tail(rest))

\* shutdown_all in task t with the names in rest still to visit: it runs to
\* the next await, or to its end, where it returns (None; ret is unused).
\* clean: no other call has overlapped it and every shutdown() it awaited
\* returned True; left: the services enabled when it returns.
ShutdownLoop(reg, t, rest, clean) ==
    LET todo == NextToShutDown(reg.enabled, rest)
    IN  IF todo = <<>>
        THEN [reg EXCEPT
                !.tasks[t] = IdleTask,
                !.returned[t] = [op |-> "shutdown_all", name |-> None,
                                 ret |-> FALSE, clean |-> clean,
                                 left |-> EnabledNames(reg.enabled)]]
        ELSE [reg EXCEPT
                !.tasks[t] = [pc |-> "shutdown_await", name |-> Head(todo),
                              rest |-> Tail(todo), clean |-> clean]]

\* ServiceRegistry.shutdown_all: for name in list(self._enabled.keys()).
ShutdownAllCall(t) ==
    /\ registry.tasks[t].pc = "idle"
    /\ registry' =
           ShutdownLoop([registry EXCEPT !.tasks = Overlapping(@, t)], t,
                        registry.order,
                        \A u \in Tasks \ {t} : registry.tasks[u].pc = "idle")
    /\ RegistryUnchanged

\* shutdown_all from the await of a disable() on.
ShutdownAllResume(t, outcome) ==
    /\ registry.tasks[t].pc = "shutdown_await"
    /\ LET name == registry.tasks[t].name
       IN  registry' =
               ShutdownLoop(
                   [registry EXCEPT
                       !.enabled[name] = IF outcome = "true" THEN FALSE ELSE @,
                       !.status[name] =
                           IF outcome = "true" THEN "disabled" ELSE @],
                   t, registry.tasks[t].rest,
                   registry.tasks[t].clean /\ outcome = "true")
    /\ RegistryUnchanged

NextRegistry ==
    \/ \E name \in ServiceNames : Register(name)
    \/ \E t \in Tasks, name \in ServiceNames : EnableCall(t, name)
    \/ \E t \in Tasks, outcome \in AwaitOutcomes : EnableResume(t, outcome)
    \/ \E t \in Tasks, name \in ServiceNames : DisableCall(t, name)
    \/ \E t \in Tasks, outcome \in AwaitOutcomes : DisableResume(t, outcome)
    \/ \E t \in Tasks : ShutdownAllCall(t)
    \/ \E t \in Tasks, outcome \in AwaitOutcomes : ShutdownAllResume(t, outcome)

SpecRegistry == InitRegistry /\ [][NextRegistry]_vars

(***************************************************************************)
(* Properties of SpecRegistry                                              *)
(***************************************************************************)
\* C25: when shutdown_all has completed, with no other registry call
\* overlapping it and every shutdown() succeeding, no registered service is
\* enabled, whatever the order of registration and the dependencies.
C25_ShutdownAllDisablesAll ==
    \A t \in Tasks :
        (/\ registry.returned[t].op = "shutdown_all"
         /\ registry.returned[t].clean)
            => registry.returned[t].left = {}

\* C26: after any enable and disable calls, overlapping at the awaits or
\* not, every enabled service has all of its dependencies enabled.
C26_EnabledHaveDependencies ==
    \A name \in DOMAIN registry.enabled :
        registry.enabled[name] =>
            \A dep \in Dependencies(name) : IsEnabled(registry.enabled, dep)

(***************************************************************************)
(* Properties of Spec: the requests of one generate_poster call            *)
(***************************************************************************)
\* How often a layer was requested in the call.
TimesRequested(layer) ==
    Cardinality({i \in 1..Len(fetchLog) : fetchLog[i] = layer})

\* The call is past its last fetch.
FetchesDone == pc \in {"render", "done"} /\ G = "graph"

\* C27: in one generate_poster call that gets past the graph fetch, the
\* graph, water and parks are requested exactly once each, every detail
\* layer exactly once when it is enabled and never when it is disabled or
\* absent, the graph before any feature layer, and nothing is requested a
\* second time, whether a request failed or not.
C27_EachLayerRequestedOnce ==
    /\ \A layer \in FeatureLayers \cup {"graph"} : TimesRequested(layer) <= 1
    /\ \A i \in 1..Len(fetchLog) : fetchLog[i] = "graph" => i = 1
    /\ FetchesDone =>
           /\ fetchLog[1] = "graph"
           /\ TimesRequested("water") = 1
           /\ TimesRequested("parks") = 1
           /\ \A layer \in DetailLayers :
                  TimesRequested(layer) = (IF LayersGet(layers, layer) THEN 1 ELSE 0)

C27_Witness ==
    /\ pc = "done"
    /\ G = "graph"
    /\ feat["water"] = "None"
    /\ LayersGet(layers, "hedges")
    /\ ~LayersGet(layers, "buildings")
    /\ TimesRequested("hedges") = 1
    /\ TimesRequested("buildings") = 0
    /\ Len(fetchLog) = 6

\* C28: in every render mode the text overlay is the topmost layer: nothing
\* the mode draws has a z-order above the text's 11.
C28_TextIsTopmost ==
    \A d \in drawn : d[2] <= LAYER_ZORDER["text"]

(***************************************************************************)
(* SpecGeocode: geocode_address, its two providers and the coordinate cache *)
(***************************************************************************)
MaxGeoCalls == 2

\* GOOGLE_PLACES_API_KEY = os.getenv(...): unset, empty or a key.
ApiKeys == {None, "", "key"}

UseGoogleArgs == {None, "True", "False"}

\* A provider returns coordinates or raises ValueError.
ProviderOutcomes == {"ok", "raise"}

\* cache_set returns, or raises CacheError because the file could not be
\* opened or because the write failed.
CacheSetOutcomes == {"ok", "raise_unopened", "raise_writing"}

\* What each provider returns for the address.
Coords(provider) == [kind |-> "coords", from |-> provider]

NoGeoCall ==
    [called |-> FALSE, use_google |-> None, consulted |-> <<>>,
     answered |-> {}, ret |-> NoData, error |-> NoError]

InitGeocode ==
    /\ PosterIdle
    /\ pure = PureIdle
    /\ svc = SvcIdle
    /\ kandin = KandinIdle
    /\ overlay = OverlayIdle
    /\ cache = CacheIdle
    /\ save = SaveIdle
    /\ registry = RegistryIdle
    /\ run = RunIdle
    /\ \E key \in ApiKeys :
         geo = [api_key |-> key, file |-> FileAbsent, calls |-> 0,
                last |-> NoGeoCall]

\* if use_google is None: use_google = KEY is not None; then
\* `if use_google and KEY`.
ConsultsGoogle(use_google, api_key) ==
    /\ IF use_google = None THEN api_key # None ELSE use_google = "True"
    /\ Given(api_key)

\* The cache file after cache_set(key, obj).
CacheSetFile(file, obj, outcome) ==
    CASE outcome = "ok" -> [state |-> "complete", content |-> obj]
      [] outcome = "raise_unopened" -> file
      [] outcome = "raise_writing" -> [state |-> "partial"]

\* try: result = provider(address); cache_set(cache_key, result); return
\* result -- with the except clause around both calls.
TryProvider(provider, file, found, stored) ==
    IF found = "raise"
    THEN [returned |-> FALSE, result |-> NoData, file |-> file,
          answered |-> {}]
    ELSE [returned |-> stored = "ok", result |-> Coords(provider),
          file |-> CacheSetFile(file, Coords(provider), stored),
          answered |-> {provider}]

\* geocode_address(address, use_google).
geocode_address(g, use_google, google, nominatim, stored) ==
    LET cached == cache_get(g.file)
        call == [NoGeoCall EXCEPT !.called = TRUE, !.use_google = use_google]
        first == IF ConsultsGoogle(use_google, g.api_key)
                 THEN TryProvider("google", g.file, google, stored)
                 ELSE [returned |-> FALSE, result |-> NoData, file |-> g.file,
                       answered |-> {}]
        second == TryProvider("nominatim", first.file, nominatim, stored)
        asked == IF ConsultsGoogle(use_google, g.api_key) THEN <<"google">>
                 ELSE <<>>
    IN  IF cached.raised # NoError
        THEN [g EXCEPT !.last = [call EXCEPT !.error = cached.raised]]
        ELSE IF cached.value # NoData
        THEN [g EXCEPT !.last = [call EXCEPT !.ret = cached.value]]
        ELSE IF first.returned
        THEN [g EXCEPT !.file = first.file,
                       !.last = [call EXCEPT !.consulted = asked,
                                             !.answered = first.answered,
                                             !.ret = first.result]]
        ELSE [g EXCEPT
                !.file = second.file,
                !.last = [call EXCEPT
                    !.consulted = Append(asked, "nominatim"),
                    !.answered = first.answered \cup second.answered,
                    !.ret = IF second.returned THEN second.result ELSE NoData,
                    !.error = IF second.returned THEN NoError
                              ELSE Raised("ValueError", "Geocoding failed")]]

GeocodeAddress ==
    /\ geo.calls < MaxGeoCalls
    /\ \E use_google \in UseGoogleArgs, google \in ProviderOutcomes,
          nominatim \in ProviderOutcomes, stored \in CacheSetOutcomes :
         geo' = [geocode_address(geo, use_google, google, nominatim, stored)
                    EXCEPT !.calls = @ + 1]
    /\ UNCHANGED <<posterVars, pure, svc, kandin, overlay, cache, save,
                   registry, run>>

\* Another process that writes the cache file is killed before it has
\* written, or the cache directory is cleared.
CacheFileChanges ==
    /\ \E state \in {"absent", "empty"} :
         /\ geo.file.state # state
         /\ geo' = [geo EXCEPT !.file = [state |-> state]]
    /\ UNCHANGED <<posterVars, pure, svc, kandin, overlay, cache, save,
                   registry, run>>

NextGeocode == GeocodeAddress \/ CacheFileChanges

SpecGeocode == InitGeocode /\ [][NextGeocode]_vars

(***************************************************************************)
(* Properties of SpecGeocode                                               *)
(***************************************************************************)
\* C29: geocode_address returns coordinates whenever a provider it consulted
\* (Google Places, then Nominatim) returned a result, and raises ValueError
\* only when every consulted provider failed; a failure to write the cache
\* neither makes a successful lookup an error nor has a second provider
\* called.
C29_ProviderResultIsReturned ==
    (geo.last.called /\ geo.last.answered # {}) =>
        /\ geo.last.error = NoError
        /\ geo.last.ret.kind = "coords"
        /\ "google" \in geo.last.answered =>
               geo.last.consulted = <<"google">>

(***************************************************************************)
(* Properties of SpecRefetch                                               *)
(***************************************************************************)
\* C30: for fetch_graph and fetch_features, a cache entry for the key is
\* returned without a request to OSM; what a successful request returned is
\* stored under the key, so that the same call made again right away makes
\* no request; a failed request stores nothing; and when the cache cannot be
\* written the fetched data is returned all the same.
C30_CacheServesRepeatedFetch ==
    \A p \in Fetchers :
        LET c == cache.procs[p]
        IN  /\ c.found = "complete" =>
                   /\ c.pc = "done"
                   /\ c.from = "cache"
                   /\ ~c.external
            /\ Stored(c) =>
                   cache.files[c.file] =
                       [state |-> "complete", content |-> c.result]
            /\ (c.prev.stored /\ c.prev.req = c.req) =>
                   /\ ~c.external
                   /\ c.pc = "done"
                   /\ c.from = "cache"
                   /\ c.result = Data(c.req)
            /\ (c.pc = "done" /\ c.from = "osm" /\ c.result = NoData) =>
                   /\ c.wrote = "none"
                   /\ (\A q \in Fetchers \ {p} : cache.procs[q].calls = 0)
                          => cache.files[c.file].state = c.found
            /\ c.wrote = "error" =>
                   /\ c.pc = "done"
                   /\ c.result = Data(c.req)

C30_Witness ==
    /\ cache.procs[1].calls = 2
    /\ cache.procs[1].req \in GraphRequests
    /\ cache.procs[1].prev.stored
    /\ cache.procs[1].prev.req = cache.procs[1].req
    /\ cache.procs[1].from = "cache"
    /\ ~cache.procs[1].external
    /\ cache.procs[2].req \in RefetchRequests
    /\ cache.procs[2].wrote = "error"
    /\ cache.procs[2].result = Data(cache.procs[2].req)

====
